---- MODULE Spec2Model ----
(***************************************************************************)
(* The multi-angle render pipeline of the Camera component                 *)
(* (src/unnamed/part_001): runQueue, submitAngle, pollJob, startBatch,     *)
(* applyImageAt, findNearestImageIndex and the selection handlers.         *)
(*                                                                         *)
(* JavaScript runs one macrotask (an event handler, a network response, a  *)
(* timer) to completion together with every microtask it schedules.  One   *)
(* action of this module is one macrotask: the arrival of a response runs  *)
(* the awaiting task's continuation, then the runner that awaited the      *)
(* task, then (when every runner has returned) the rest of startBatch.     *)
(* The synchronous part of startBatch is two steps, its reset of the state *)
(* and its call of runQueue, with no other step in between.                *)
(*                                                                         *)
(* Arrays are functions on 0..n-1, as in the source.                       *)
(*                                                                         *)
(* The Chat component of the same file is the variable chat: its messages, *)
(* its free turn for guests, its login dialog and its one pending turn.    *)
(*                                                                         *)
(* The render proxy (src/functions/api/qwen.ts) is the variable proxy: its *)
(* environment and assets, its module caches and the request it handles.   *)
(***************************************************************************)
EXTENDS Integers, Sequences, FiniteSets, TLC

\* ------------------------------------------------------------------ bounds

\* Number of azimuth presets the reduced specifications render.
NumViews == 2
\* Poll attempts per job in the reduced specifications.
MaxPoll == 2
\* startBatch calls (uploads and "render all" clicks) in one behaviour.
MaxStarts == 2
\* Submissions in one behaviour that the render endpoint answers with a job id
\* (the others are answered at once, with images or with an error).
MaxJobs == 1
\* Largest ceiling handed to runQueue in the runQueue specification.
MaxCeiling == 4
\* chat requests the user may make
MaxTurns == 2
\* requests the render proxy handles in one behaviour
MaxPosts == 2

\* --------------------------------------------------------- module constants

AZIMUTH_KEYS == {0, 45, 90, 135, 180, 225, 270, 315}
MAX_PARALLEL == 3
\* useState(20) and useState(1.0), the latter in tenths.
DefaultElevation == 20
DefaultDistance == 10
POLL_ATTEMPTS == 120

\* Object.keys(MAP).map(Number).sort((a, b) => a - b) as an array on 0..n-1.
SortedKeys(keys) ==
    [i \in 0..(Cardinality(keys) - 1) |->
        CHOOSE k \in keys : Cardinality({j \in keys : j < k}) = i]

ANGLE_PRESETS == SortedKeys(AZIMUTH_KEYS)

\* The keys of ELEVATION_MAP, and those of DISTANCE_MAP in tenths (0.6, 1.0, 1.4).
ELEVATION_KEYS == {-30, 0, 30, 60}
DISTANCE_KEYS == {6, 10, 14}
ELEVATION_PRESETS == SortedKeys(ELEVATION_KEYS)
DISTANCE_PRESETS == SortedKeys(DISTANCE_KEYS)

\* The values of the two range inputs: -30..60 in steps of 5, 0.6..1.4 in steps
\* of 0.1 (in tenths).
ElevationValues == {-30 + 5 * n : n \in 0..18}
DistanceValues == 6..14

Length(a) == Cardinality(DOMAIN a)
EmptyArray == [i \in {} |-> 0]
Prefix(a, n) == [i \in 0..(n - 1) |-> a[i]]
Max(a, b) == IF a >= b THEN a ELSE b

\* ------------------------------------------------------------- UI strings

NoValue == ""
MsgInitial == "Upload an image to render all angles."
MsgRendering(count) == "Rendering " \o ToString(count) \o " angles..."
MsgCompleted == "Completed."
MsgRequestFailed == "Request failed."
MsgMissingJobId == "Missing job id."
MsgImageMissing == "Image is missing."
MsgStatusFailed == "Status request failed."
MsgRenderFailed == "Render failed."
MsgTimedOut == "Render timed out."

VARIABLES
    presets,        \* ANGLE_PRESETS as used by the component
    concurrency,    \* the ceiling startBatch hands to runQueue
    pollLimit,      \* the attempt budget of pollJob
    elevation,      \* useState elevation
    distance,       \* useState distance, in tenths
    submitInputs,   \* the responses the render endpoint may give to a POST
    statusInputs,   \* the responses the status endpoint may give to a GET
    startsLeft,     \* uploads and clicks the user may still make
    jobsLeft,       \* job ids the render endpoint may still hand out
    runIdRef,       \* runIdRef.current
    results,        \* useState results
    selectedIndex,  \* useState selectedIndex
    statusMessage,  \* useState statusMessage
    isRunning,      \* useState isRunning
    sourcePayload,  \* useState sourcePayload
    readers,        \* FileReaders started by handleFileChange and not yet loaded
    runs,           \* the startBatch invocations, in call order
    displayed,      \* displayIndex as computed by the last render
    chat,           \* the state of the Chat component
    proxy           \* the render proxy: environment, caches, request in hand

vars == <<presets, concurrency, pollLimit, elevation, distance,
          submitInputs, statusInputs, startsLeft, jobsLeft,
          runIdRef, results, selectedIndex, statusMessage, isRunning, sourcePayload,
          readers, runs, displayed, chat, proxy>>

settings == <<elevation, distance>>

\* What no handler of the Camera component writes: the inputs of the model, the
\* sliders (but for their own handlers), the other component and the proxy.
config == <<presets, concurrency, pollLimit, submitInputs, statusInputs, settings, chat,
            proxy>>

camera == <<presets, concurrency, pollLimit, elevation, distance,
            submitInputs, statusInputs, startsLeft, jobsLeft,
            runIdRef, results, selectedIndex, statusMessage, isRunning, sourcePayload,
            readers, runs, displayed>>

ui == <<results, selectedIndex, statusMessage, isRunning>>

\* The component's mutable state as one value, for the operators below.
Current ==
    [runIdRef |-> runIdRef, results |-> results, selectedIndex |-> selectedIndex,
     statusMessage |-> statusMessage, isRunning |-> isRunning, runs |-> runs]

\* ------------------------------------------------------ responses (inputs)

\* Raw image items a response may carry: an empty string, a URL, bare base64.
RawEmpty == ""
RawUrl == "http://cdn/a.png"
RawBase64 == "QUJD"
DataUrl == "data:image/png;base64,QUJD"

\* value.startsWith('data:') || value.startsWith('http')
HasUrlPrefix(value) == value \in {RawUrl, DataUrl}

Response(ok, error, status, images, id) ==
    [ok |-> ok, error |-> error, status |-> status, images |-> images, id |-> id]

NoResponse == Response(TRUE, NoValue, NoValue, <<>>, NoValue)

\* What the render endpoint may answer to a submission.
SubmitRejected == Response(FALSE, NoValue, NoValue, <<>>, NoValue)
SubmitRejectedWith == Response(FALSE, "upstream: bad input", NoValue, <<>>, NoValue)
SubmitInline == Response(TRUE, NoValue, NoValue, <<RawEmpty, RawBase64, RawUrl>>, "job-1")
SubmitJob == Response(TRUE, NoValue, NoValue, <<>>, "job-1")
SubmitEmpty == Response(TRUE, NoValue, NoValue, <<RawEmpty>>, NoValue)

\* What the status endpoint may answer to a status request.
StatusRejected == Response(FALSE, NoValue, "IN_PROGRESS", <<>>, NoValue)
StatusFailed == Response(TRUE, "upstream: out of memory", "FAILED", <<RawUrl>>, NoValue)
StatusPending == Response(TRUE, NoValue, "IN_PROGRESS", <<>>, NoValue)
StatusDone == Response(TRUE, NoValue, "COMPLETED", <<RawUrl, RawBase64>>, NoValue)
StatusDoneBase64 == Response(TRUE, NoValue, NoValue, <<RawEmpty, RawBase64>>, NoValue)

\* Every shape of an answer to a submission: success or not, with or without an
\* upstream message, an image list that is absent, holds nothing usable or holds
\* images, with or without a job id.
SubmitResponses ==
    {Response(ok, error, NoValue, images, id) :
        ok \in BOOLEAN, error \in {NoValue, "upstream: bad input"},
        images \in {<<>>, <<RawEmpty>>, <<RawEmpty, RawBase64, RawUrl>>},
        id \in {NoValue, "job-1"}}

\* Every shape of an answer to a status request.
StatusResponses ==
    {Response(ok, error, status, images, NoValue) :
        ok \in BOOLEAN, error \in {NoValue, "upstream: out of memory"},
        status \in {NoValue, "IN_PROGRESS", "COMPLETED", "FAILED"},
        images \in {<<>>, <<RawEmpty>>, <<RawUrl, RawBase64>>}}

AllSubmitResponses == {SubmitRejected, SubmitRejectedWith, SubmitInline, SubmitJob, SubmitEmpty}
AllStatusResponses == {StatusRejected, StatusFailed, StatusPending, StatusDone, StatusDoneBase64}

\* --------------------------------------------------------- pure functions

normalizeImage(value) ==
    IF value = RawEmpty THEN NoValue
    ELSE IF HasUrlPrefix(value) THEN value
    ELSE "data:image/png;base64," \o value

\* candidate.map(normalizeImage).filter(Boolean) on the response's image list.
RECURSIVE NormalizedList(_)
NormalizedList(items) ==
    IF items = <<>> THEN <<>>
    ELSE LET normalized == normalizeImage(Head(items))
         IN IF normalized = NoValue
            THEN NormalizedList(Tail(items))
            ELSE <<normalized>> \o NormalizedList(Tail(items))

extractImageList(payload) == NormalizedList(payload.images)

extractJobId(payload) == payload.id

\* String(status).toLowerCase().includes('fail')
IncludesFail(status) == status \in {"FAILED", "failed", "Failure"}

\* A number of the source as k units plus e times a quantity far smaller than a
\* unit.  Degrees are whole units.  A distance is the double nearest to k tenths:
\* e is the rounding error of that double, in units of 2^-53 / 10.
Whole(n) == [k |-> n, e |-> 0]
DoubleError == <<-2, -4, 4, 2, 0, 8, -4, 4, -8>>
Tenths(t) == [k |-> t, e |-> DoubleError[t - 5]]

\* Math.abs(a - b); the subtraction of two of these doubles is exact.
AbsDiff(a, b) ==
    LET d == [k |-> a.k - b.k, e |-> a.e - b.e]
    IN IF d.k < 0 \/ (d.k = 0 /\ d.e < 0) THEN [k |-> -d.k, e |-> -d.e] ELSE d

Less(x, y) == x.k < y.k \/ (x.k = y.k /\ x.e < y.e)

\* A comparison of the signed differences.
CloserSigned(option, nearest, value) ==
    Less([k |-> option.k - value.k, e |-> option.e - value.e],
         [k |-> nearest.k - value.k, e |-> nearest.e - value.e])

\* A comparison that lets the later of two equally near options win.
CloserOrEqual(option, nearest, value) ==
    ~Less(AbsDiff(nearest, value), AbsDiff(option, value))

\* Math.abs(option - value) < Math.abs(nearest - value)
Closer(option, nearest, value) == Less(AbsDiff(option, value), AbsDiff(nearest, value))

\* options.reduce((nearest, option) => ...) from position i on; the accumulator
\* is a value before the next call, as it is in the code.
RECURSIVE Reduce(_, _, _, _)
Reduce(value, options, nearest, i) ==
    IF i >= Length(options) THEN nearest
    ELSE CHOOSE r \in {Reduce(value, options, n, i + 1) :
                          n \in {IF Closer(options[i], nearest, value)
                                 THEN options[i] ELSE nearest}} : TRUE

\* Without an initial value reduce starts from the first option.
snapToNearest(value, options) == Reduce(value, options, options[0], 1)

AzimuthOptions == [i \in DOMAIN ANGLE_PRESETS |-> Whole(ANGLE_PRESETS[i])]
ElevationOptions == [i \in DOMAIN ELEVATION_PRESETS |-> Whole(ELEVATION_PRESETS[i])]
DistanceOptions == [i \in DOMAIN DISTANCE_PRESETS |-> Tenths(DISTANCE_PRESETS[i])]

\* buildAnglePrompt: the three presets whose labels make the prompt.
buildAnglePrompt(view) ==
    CHOOSE prompt \in
        {[azimuth |-> snapToNearest(Whole(v.azimuth), AzimuthOptions).k,
          elevation |-> snapToNearest(Whole(v.elevation), ElevationOptions).k,
          distance |-> snapToNearest(Tenths(v.distance), DistanceOptions).k] :
             v \in {view}} : TRUE

\* JavaScript's %: the remainder takes the sign of the dividend.
JsRem(a, n) == IF a >= 0 THEN a % n ELSE -((-a) % n)

wrapIndex(value, length) ==
    IF length = 0 THEN 0 ELSE JsRem(JsRem(value, length) + length, length)

\* items[i]?.image is truthy
HasImage(items, i) == i \in DOMAIN items /\ items[i].image # NoValue

\* What a closure over `items` can read through items[i]?.image: the indices
\* whose record holds an image.
WithImage(items) == {i \in DOMAIN items : HasImage(items, i)}

\* A search that takes the right-hand neighbour whether or not it has an image.
NearestFromRight(index, items, offset) ==
    IF offset >= Length(items) THEN -1
    ELSE wrapIndex(index + offset, Length(items))

\* A search that looks to the left before it looks to the right.
RECURSIVE NearestFromLeftFirst(_, _, _)
NearestFromLeftFirst(index, items, offset) ==
    IF offset >= Length(items) THEN -1
    ELSE LET right == wrapIndex(index + offset, Length(items))
             left == wrapIndex(index - offset, Length(items))
         IN IF HasImage(items, left) THEN left
            ELSE IF HasImage(items, right) THEN right
            ELSE NearestFromLeftFirst(index, items, offset + 1)

RECURSIVE NearestFrom(_, _, _)
NearestFrom(index, items, offset) ==
    IF offset >= Length(items) THEN -1
    ELSE LET right == wrapIndex(index + offset, Length(items))
             left == wrapIndex(index - offset, Length(items))
         IN IF HasImage(items, right) THEN right
            ELSE IF HasImage(items, left) THEN left
            ELSE NearestFrom(index, items, offset + 1)

findNearestImageIndex(index, items) ==
    IF Length(items) = 0 THEN -1
    ELSE IF HasImage(items, index) THEN index
    ELSE NearestFrom(index, items, 1)

\* The component re-renders after a state change: useMemo recomputes displayIndex.
Render == displayed' = findNearestImageIndex(selectedIndex', results')

\* ------------------------------------------------ the run and its tasks

\* One startBatch invocation: its captured runId and payload, the results its
\* applyImageAt closed over (as WithImage), runQueue's cursor and runners, and each task's
\* position (idle, submitting: awaiting the POST; polling: awaiting status
\* request i; waiting: in the delay after attempt i; resolved).
\* i is pollJob's loop counter (0 outside pollJob) and starts counts the task's
\* invocations.  prompt holds the presets of the anglePrompt the task built,
\* from the position the task resolved from, and dropped whether the run was
\* superseded by then.  timer is the length in ms of the last delay of the
\* task's poll and waited the sum of its delays so far.  thrown is the message of
\* an error that has left the task's try block and has not been caught.
NoPrompt == [azimuth |-> -1, elevation |-> -1, distance |-> -1]
NewTask ==
    [pc |-> "idle", i |-> 0, starts |-> 0, prompt |-> NoPrompt, from |-> "none",
     dropped |-> FALSE, timer |-> 0, waited |-> 0, thrown |-> NoValue]

\* Status requests pollJob has issued so far: one per loop iteration begun.
Requests(task) == IF task.pc \in {"polling", "waiting"} THEN task.i + 1 ELSE 0

\* A pool with one runner more than the ceiling.
RunnerCountPlusOne == Max(1, concurrency) + 1

\* Array.from({ length: Math.max(1, concurrency) }, ...)
RunnerCount == Max(1, concurrency)

\* pc: created (startBatch has reset the state and is about to call runQueue),
\* awaitQueue, finished.  late records that a continuation of the run has run
\* after the run was superseded.
NewRun(runId, payload, closure, views) ==
    [runId |-> runId, payload |-> payload, closure |-> closure, views |-> views,
     cursor |-> 0,
     runner |-> [w \in 1..RunnerCount |-> [pc |-> "new", index |-> -1]],
     task |-> [k \in DOMAIN views |-> NewTask],
     pc |-> "created", late |-> FALSE, rejected |-> NoValue]

IsCurrent(S, slot) == S.runIdRef = S.runs[slot].runId

\* F applied to the value of S, with S evaluated once.
Once(S, F(_)) == CHOOSE R \in {F(T) : T \in {S}} : TRUE

SetStatus(S, index, status, error) ==
    [S EXCEPT !.results =
        [k \in DOMAIN S.results |->
            IF k = index
            THEN [S.results[k] EXCEPT !.status = status, !.error = error]
            ELSE S.results[k]]]

\* A binding that stores the image and leaves the status as it was.
applyImageAtKeepStatus(S, slot, index, image) ==
    LET closure == S.runs[slot].closure
        prev == S.selectedIndex
    IN [S EXCEPT
          !.results =
              [k \in DOMAIN S.results |->
                  [S.results[k] EXCEPT !.image = IF k = index THEN image ELSE @]],
          !.selectedIndex =
              IF prev = index THEN prev
              ELSE IF prev \notin closure THEN index
              ELSE prev]

applyImageAt(S, slot, index, image) ==
    LET closure == S.runs[slot].closure
        prev == S.selectedIndex
    IN [S EXCEPT
          !.results =
              [k \in DOMAIN S.results |->
                  [S.results[k] EXCEPT
                      !.status = IF k = index THEN "done" ELSE @,
                      !.image = IF k = index THEN image ELSE @]],
          !.selectedIndex =
              IF prev = index THEN prev
              ELSE IF prev \notin closure THEN index
              ELSE prev]

\* A completion that does not look at the epoch.
FinishBatchUnguarded(S, slot) ==
    [S EXCEPT !.statusMessage = MsgCompleted, !.isRunning = FALSE,
              !.runs[slot].pc = "finished"]

\* A finally block that clears the flag without looking at the epoch.
FinishBatchFlagUnguarded(S, slot) ==
    LET S1 == IF IsCurrent(S, slot) THEN [S EXCEPT !.statusMessage = MsgCompleted] ELSE S
    IN [S1 EXCEPT !.isRunning = FALSE, !.runs[slot].pc = "finished"]

\* The rest of startBatch after `await runQueue(...)`.
FinishBatch(S, slot) ==
    LET S1 == IF IsCurrent(S, slot) THEN [S EXCEPT !.statusMessage = MsgCompleted] ELSE S
        S2 == IF IsCurrent(S1, slot) THEN [S1 EXCEPT !.isRunning = FALSE] ELSE S1
    IN [S2 EXCEPT !.runs[slot].pc = "finished"]

AllReturned(S, slot) ==
    \A w \in DOMAIN S.runs[slot].runner : S.runs[slot].runner[w].pc = "returned"

\* Promise.all(runners) resolves once every runner has returned.
JoinRunners(S, slot) ==
    IF AllReturned(S, slot) /\ S.runs[slot].pc = "awaitQueue"
    THEN FinishBatch(S, slot)
    ELSE S

\* A loop test that is off by one: i <= 120.
PollAttemptOneMore(S, slot, index, i) ==
    IF i <= pollLimit
    THEN IF S.runIdRef # S.runs[slot].runId
         THEN [outcome |-> "cancelled", S |-> S]
         ELSE [outcome |-> "pending",
               S |-> [S EXCEPT !.runs[slot].task[index] =
                         [@ EXCEPT !.pc = "polling", !.i = i]]]
    ELSE [outcome |-> "throw", S |-> S]

\* A loop without the epoch check.
PollAttemptUnchecked(S, slot, index, i) ==
    IF i < pollLimit
    THEN [outcome |-> "pending",
          S |-> [S EXCEPT !.runs[slot].task[index] = [@ EXCEPT !.pc = "polling", !.i = i]]]
    ELSE [outcome |-> "throw", S |-> S]

\* pollJob at the top of its loop with counter i.
PollAttempt(S, slot, index, i) ==
    IF i < pollLimit
    THEN IF ~IsCurrent(S, slot)
         THEN [outcome |-> "cancelled", S |-> S]
         ELSE [outcome |-> "pending",
               S |-> [S EXCEPT !.runs[slot].task[index] =
                         [@ EXCEPT !.pc = "polling", !.i = i]]]
    ELSE [outcome |-> "throw", S |-> S]

\* A catch block without its epoch check.
TaskCatchUnguarded(S, slot, index, message) ==
    [SetStatus(S, index, "error", message) EXCEPT !.statusMessage = message]

\* A catch block that swallows the error.
TaskCatchSilent(S, slot, index, message) == S

\* A catch block that fails the whole batch.
TaskCatchAll(S, slot, index, message) ==
    IF ~IsCurrent(S, slot) THEN S
    ELSE [S EXCEPT !.statusMessage = message,
                   !.results = [k \in DOMAIN S.results |->
                                   [S.results[k] EXCEPT !.status = "error",
                                                        !.error = message]]]

\* A catch block that keeps the text of the first error of the run.
TaskCatchFirstWins(S, slot, index, message) ==
    IF ~IsCurrent(S, slot) THEN S
    ELSE [SetStatus(S, index, "error", message) EXCEPT
            !.statusMessage =
                IF @ = MsgRendering(Length(presets)) THEN message ELSE @]

\* A catch block that throws the error again.
TaskCatchRethrow(S, slot, index, message) ==
    [S EXCEPT !.runs[slot].task[index].thrown = message]

\* The catch block of a task.
TaskCatch(S, slot, index, message) ==
    IF ~IsCurrent(S, slot) THEN S
    ELSE [SetStatus(S, index, "error", message) EXCEPT !.statusMessage = message]

MarkResolved(S, slot, index) ==
    [S EXCEPT !.runs[slot].task[index] =
        [@ EXCEPT !.pc = "resolved", !.i = 0, !.from = S.runs[slot].task[index].pc,
                  !.dropped = S.runIdRef # S.runs[slot].runId,
                  !.timer = 0, !.waited = 0]]

\* A submitAngle that returns without a word on an empty payload.
SubmitStartSkip(S, slot, index) ==
    IF S.runs[slot].payload = NoValue
    THEN MarkResolved(S, slot, index)
    ELSE [S EXCEPT !.runs[slot].task[index].pc = "submitting"]

\* The task's promise settles after its catch block: it is fulfilled unless an
\* error is still on its way out.
Settle(S, slot, index) ==
    Once(S, LAMBDA T :
        IF T.runs[slot].task[index].thrown # NoValue
        THEN [T EXCEPT !.runs[slot].task[index].pc = "rejected"]
        ELSE MarkResolved(T, slot, index))

\* submitAngle up to its fetch: "throw" on an empty payload, else the POST is out.
SubmitStart(S, slot, index) ==
    Once(S, LAMBDA T :
        IF T.runs[slot].payload = NoValue
        THEN Settle(TaskCatch(T, slot, index, MsgImageMissing), slot, index)
        ELSE [T EXCEPT !.runs[slot].task[index].pc = "submitting"])

\* A task that submits without marking its view running.
TaskStartUnmarked(S, slot, index) ==
    LET S1 == [S EXCEPT !.runs[slot].task[index].starts = @ + 1]
    IN IF S1.runIdRef # S1.runs[slot].runId
       THEN MarkResolved(S1, slot, index)
       ELSE SubmitStart([S1 EXCEPT !.runs[slot].task[index].prompt =
                                      buildAnglePrompt(S.runs[slot].views[index])],
                        slot, index)

\* A task without the epoch check at its top.
TaskStartUnchecked(S, slot, index) ==
    LET S1 == [S EXCEPT !.runs[slot].task[index].starts = @ + 1]
        S2 == IF IsCurrent(S1, slot) THEN SetStatus(S1, index, "running", NoValue) ELSE S1
        S3 == [S2 EXCEPT !.runs[slot].task[index].prompt =
                             buildAnglePrompt(S.runs[slot].views[index])]
    IN SubmitStart(S3, slot, index)

\* tasks[index]() up to its first await.
TaskStart(S, slot, index) ==
    Once(S, LAMBDA T :
        LET S1 == [T EXCEPT !.runs[slot].task[index].starts = @ + 1]
        IN IF ~IsCurrent(S1, slot)
           THEN MarkResolved(S1, slot, index)
           ELSE LET S2 == SetStatus(S1, index, "running", NoValue)
                    S3 == [S2 EXCEPT !.runs[slot].task[index].prompt =
                                         buildAnglePrompt(T.runs[slot].views[index])]
                IN SubmitStart(S3, slot, index))

\* A cursor that is read but not advanced.
ClaimNothing(S, slot) == S

\* const index = cursor; cursor += 1
Claim(S, slot) == [S EXCEPT !.runs[slot].cursor = @ + 1]

\* A runner that calls its task without awaiting it.
RECURSIVE RunnerLoopEager(_, _, _)
RunnerLoopEager(S, slot, w) ==
    LET index == S.runs[slot].cursor
        S1 == Claim(S, slot)
    IN IF index >= Length(S.runs[slot].task)
       THEN [S1 EXCEPT !.runs[slot].runner[w] = [pc |-> "returned", index |-> -1]]
       ELSE RunnerLoopEager(
                TaskStart([S1 EXCEPT !.runs[slot].runner[w] =
                              [pc |-> "awaiting", index |-> index]], slot, index),
                slot, w)

\* startBatch's catch and finally blocks, entered when runQueue rejects.
OuterCatch(S, slot) ==
    LET message == S.runs[slot].rejected
        S1 == [S EXCEPT !.statusMessage = message,
                        !.results = [k \in DOMAIN S.results |->
                                        [S.results[k] EXCEPT !.status = "error",
                                                             !.error = message]]]
        S2 == IF IsCurrent(S1, slot) THEN [S1 EXCEPT !.isRunning = FALSE] ELSE S1
    IN [S2 EXCEPT !.runs[slot].pc = "failed"]

\* `await tasks[index]()` throws in runner w: the runner's promise rejects and
\* with it Promise.all and runQueue, once every runner has been created.
RunnerRejected(S, slot, index, w) ==
    LET S1 == [S EXCEPT !.runs[slot].runner[w] = [pc |-> "rejected", index |-> index],
                        !.runs[slot].rejected =
                            IF @ = NoValue THEN S.runs[slot].task[index].thrown ELSE @]
    IN IF /\ S1.runs[slot].pc = "awaitQueue"
          /\ \A v \in DOMAIN S1.runs[slot].runner : S1.runs[slot].runner[v].pc # "new"
       THEN OuterCatch(S1, slot)
       ELSE S1

\* One runner of runQueue, from the top of its while loop to its next await.
RECURSIVE RunnerLoop(_, _, _)
RunnerLoop(S, slot, w) ==
    Once(S, LAMBDA T :
        LET index == T.runs[slot].cursor
            S1 == Claim(T, slot)
        IN IF index >= Length(T.runs[slot].task)
           THEN JoinRunners([S1 EXCEPT !.runs[slot].runner[w] =
                                [pc |-> "returned", index |-> -1]], slot)
           ELSE Once(TaskStart([S1 EXCEPT !.runs[slot].runner[w] =
                                   [pc |-> "awaiting", index |-> index]], slot, index),
                     LAMBDA S2 :
                         IF S2.runs[slot].task[index].pc = "resolved"
                         THEN RunnerLoop(S2, slot, w)
                         ELSE IF S2.runs[slot].task[index].pc = "rejected"
                         THEN RunnerRejected(S2, slot, index, w)
                         ELSE S2))

\* Array.from({length: Math.max(1, concurrency)}, async () => ...): each runner
\* runs to its first await before the next one is created.
RECURSIVE StartRunners(_, _, _)
StartRunners(S, slot, w) ==
    IF w > RunnerCount
    THEN IF S.runs[slot].rejected # NoValue /\ S.runs[slot].pc = "awaitQueue"
         THEN OuterCatch(S, slot)
         ELSE S
    ELSE StartRunners(RunnerLoop(S, slot, w), slot, w + 1)

runQueue(S, slot) == StartRunners([S EXCEPT !.runs[slot].pc = "awaitQueue"], slot, 1)

\* A task has settled: the runner awaiting it goes on, or rejects with it.
TaskResolved(S, slot, index) ==
    Once(S, LAMBDA T :
        LET w == CHOOSE w \in DOMAIN T.runs[slot].runner :
                     T.runs[slot].runner[w] = [pc |-> "awaiting", index |-> index]
        IN Once(Settle(T, slot, index), LAMBDA S1 :
               IF S1.runs[slot].task[index].pc = "rejected"
               THEN RunnerRejected(S1, slot, index, w)
               ELSE RunnerLoop(S1, slot, w)))

\* Views with the two slider values in each other's place.
buildViewsSwapped(elev, dist) ==
    [k \in DOMAIN presets |-> [azimuth |-> presets[k], elevation |-> dist, distance |-> elev]]

\* ANGLE_PRESETS.map((angle) => ({ azimuth: angle, elevation, distance })), with
\* the elevation and distance of the render that made the callback.
buildViews(elev, dist) ==
    [k \in DOMAIN presets |-> [azimuth |-> presets[k], elevation |-> elev, distance |-> dist]]

\* A reset that spreads the previous record of each view under the new fields.
FreshResultsKeeping(S, views) ==
    [k \in DOMAIN views |->
        IF k \in DOMAIN S.results
        THEN [S.results[k] EXCEPT !.azimuth = views[k].azimuth, !.status = "queued"]
        ELSE [azimuth |-> views[k].azimuth, elevation |-> views[k].elevation,
              distance |-> views[k].distance, status |-> "queued",
              image |-> NoValue, error |-> NoValue]]

\* views.map((view) => ({id, azimuth, elevation, distance, status: 'queued'}))
FreshResults(S, views) ==
    [k \in DOMAIN views |->
        [azimuth |-> views[k].azimuth, elevation |-> views[k].elevation,
         distance |-> views[k].distance, status |-> "queued",
         image |-> NoValue, error |-> NoValue]]

\* A new run that takes the epoch of the run before it.
NextRunIdSame(S) == S.runIdRef

\* The epoch of a new run.
NextRunId(S) == S.runIdRef + 1

\* A startBatch without the test of its payload.
startBatchUnchecked(S, payload, closure, views) ==
    LET runId == NextRunId(S)
    IN [S EXCEPT
          !.runIdRef = runId,
          !.isRunning = TRUE,
          !.statusMessage = MsgRendering(Length(presets)),
          !.results = FreshResults(S, views),
          !.selectedIndex = 0,
          !.runs = Append(@, NewRun(runId, payload, closure, views))]

\* startBatch(payload), with the results its applyImageAt closed over and the
\* views its buildViews makes, up to the call of runQueue.
startBatch(S, payload, closure, views) ==
    IF payload = NoValue THEN S
    ELSE LET runId == NextRunId(S)
         IN [S EXCEPT
               !.runIdRef = runId,
               !.isRunning = TRUE,
               !.statusMessage = MsgRendering(Length(presets)),
               !.results = FreshResults(S, views),
               !.selectedIndex = 0,
               !.runs = Append(@, NewRun(runId, payload, closure, views))]

\* A task that binds the last inline image.
AfterSubmitLastImage(S, slot, index, res) ==
    IF ~res.ok
    THEN TaskResolved(TaskCatch(S, slot, index,
             IF res.error # NoValue THEN res.error ELSE MsgRequestFailed), slot, index)
    ELSE LET images == extractImageList(res)
             jobId == extractJobId(res)
         IN IF images = <<>> /\ jobId = NoValue
            THEN TaskResolved(TaskCatch(S, slot, index, MsgMissingJobId), slot, index)
            ELSE IF ~IsCurrent(S, slot) THEN TaskResolved(S, slot, index)
            ELSE IF images # <<>>
            THEN TaskResolved(applyImageAt(S, slot, index, images[Len(images)]), slot, index)
            ELSE [S EXCEPT !.runs[slot].task[index] = [@ EXCEPT !.pc = "polling", !.i = 0]]

\* A submission that looks for the job id before it looks for images.
AfterSubmitJobFirst(S, slot, index, res) ==
    IF ~res.ok
    THEN TaskResolved(TaskCatch(S, slot, index,
             IF res.error # NoValue THEN res.error ELSE MsgRequestFailed), slot, index)
    ELSE LET images == extractImageList(res)
             jobId == extractJobId(res)
         IN IF images = <<>> /\ jobId = NoValue
            THEN TaskResolved(TaskCatch(S, slot, index, MsgMissingJobId), slot, index)
            ELSE IF ~IsCurrent(S, slot) THEN TaskResolved(S, slot, index)
            ELSE IF jobId # NoValue
            THEN [S EXCEPT !.runs[slot].task[index] = [@ EXCEPT !.pc = "polling", !.i = 0]]
            ELSE TaskResolved(applyImageAt(S, slot, index, images[1]), slot, index)

\* The task after `await submitAngle(...)`, given the response.
AfterSubmit(S, slot, index, res) ==
    IF ~res.ok
    THEN TaskResolved(TaskCatch(S, slot, index,
             IF res.error # NoValue THEN res.error ELSE MsgRequestFailed), slot, index)
    ELSE LET images == extractImageList(res)
             jobId == extractJobId(res)
         IN IF images = <<>> /\ jobId = NoValue
            THEN TaskResolved(TaskCatch(S, slot, index, MsgMissingJobId), slot, index)
            ELSE IF ~IsCurrent(S, slot) THEN TaskResolved(S, slot, index)
            ELSE IF images # <<>>
            THEN TaskResolved(applyImageAt(S, slot, index, images[1]), slot, index)
            ELSE LET poll == PollAttempt(S, slot, index, 0)
                 IN CASE poll.outcome = "pending" -> poll.S
                      [] poll.outcome = "cancelled" -> TaskResolved(poll.S, slot, index)
                      [] OTHER ->
                           TaskResolved(TaskCatch(poll.S, slot, index, MsgTimedOut), slot, index)

\* A task that binds the last image of the list.
AfterPollDoneLast(S, slot, index, images) ==
    IF ~IsCurrent(S, slot) THEN TaskResolved(S, slot, index)
    ELSE TaskResolved(applyImageAt(S, slot, index, images[Len(images)]), slot, index)

\* The task after pollJob returned {status: 'done', images}.
AfterPollDone(S, slot, index, images) ==
    IF ~IsCurrent(S, slot) THEN TaskResolved(S, slot, index)
    ELSE TaskResolved(applyImageAt(S, slot, index, images[1]), slot, index)

\* A delay that does not grow.
DelayConstant(i) == 1500

\* The argument of wait(...) in attempt i.
Delay(i) == 1500 + i * 40

\* await wait(1500 + i * 40)
StartWait(S, slot, index) ==
    LET ms == Delay(S.runs[slot].task[index].i)
    IN [S EXCEPT !.runs[slot].task[index] =
           [@ EXCEPT !.pc = "waiting", !.timer = ms, !.waited = @ + ms]]

\* A poll that looks for images before it looks at the status string.
AfterStatusImagesFirst(S, slot, index, res) ==
    IF ~res.ok
    THEN TaskResolved(TaskCatch(S, slot, index,
             IF res.error # NoValue THEN res.error ELSE MsgStatusFailed), slot, index)
    ELSE LET images == extractImageList(res)
         IN IF images # <<>>
            THEN AfterPollDone(S, slot, index, images)
            ELSE IF IncludesFail(res.status)
            THEN TaskResolved(TaskCatch(S, slot, index,
                     IF res.error # NoValue THEN res.error ELSE MsgRenderFailed), slot, index)
            ELSE StartWait(S, slot, index)

\* pollJob after the status response of attempt i.
AfterStatus(S, slot, index, res) ==
    IF ~res.ok
    THEN TaskResolved(TaskCatch(S, slot, index,
             IF res.error # NoValue THEN res.error ELSE MsgStatusFailed), slot, index)
    ELSE IF IncludesFail(res.status)
    THEN TaskResolved(TaskCatch(S, slot, index,
             IF res.error # NoValue THEN res.error ELSE MsgRenderFailed), slot, index)
    ELSE LET images == extractImageList(res)
         IN IF images # <<>>
            THEN AfterPollDone(S, slot, index, images)
            ELSE StartWait(S, slot, index)

\* A timeout that is reported on every record, as startBatch's outer catch would.
AfterWaitAll(S, slot, index) ==
    LET poll == PollAttempt(S, slot, index, S.runs[slot].task[index].i + 1)
        Failed(T) == [T EXCEPT !.statusMessage = MsgTimedOut,
                               !.results = [k \in DOMAIN T.results |->
                                   [T.results[k] EXCEPT !.status = "error",
                                                        !.error = MsgTimedOut]]]
    IN CASE poll.outcome = "pending" -> poll.S
         [] poll.outcome = "cancelled" -> TaskResolved(poll.S, slot, index)
         [] OTHER -> TaskResolved(Failed(poll.S), slot, index)

\* pollJob after `await wait(1500 + i * 40)`: i += 1 and the loop test.
AfterWait(S, slot, index) ==
    LET poll == PollAttempt(S, slot, index, S.runs[slot].task[index].i + 1)
    IN CASE poll.outcome = "pending" -> poll.S
         [] poll.outcome = "cancelled" -> TaskResolved(poll.S, slot, index)
         [] OTHER -> TaskResolved(TaskCatch(poll.S, slot, index, MsgTimedOut), slot, index)

\* ------------------------------------------------------------ the actions

\* The component's state becomes S, and the component re-renders.
Becomes(S) ==
    \E T \in {S} :
        /\ runIdRef' = T.runIdRef
        /\ results' = T.results
        /\ selectedIndex' = T.selectedIndex
        /\ statusMessage' = T.statusMessage
        /\ isRunning' = T.isRunning
        /\ runs' = T.runs
        /\ Render

SourceImage == "iVBORw0KGgo="
Payloads == {NoValue, SourceImage}

\* startBatch runs from its reset of the state to its call of runQueue without
\* any other macrotask in between: while a run is "created" only BeginQueue is
\* enabled.
Settled == \A slot \in DOMAIN runs : runs[slot].pc # "created"

At(slot, index, pc) ==
    /\ Settled
    /\ slot \in DOMAIN runs
    /\ index \in DOMAIN runs[slot].task
    /\ runs[slot].task[index].pc = pc

\* The response makes submitAngle return {jobId}.
GivesJob(res) == res.ok /\ extractImageList(res) = <<>> /\ extractJobId(res) # NoValue

\* The rest of the synchronous part of startBatch: runQueue starts its runners,
\* each of which runs to its first await.
BeginQueue(slot) ==
    /\ slot \in DOMAIN runs
    /\ runs[slot].pc = "created"
    /\ Becomes(runQueue(Current, slot))
    /\ UNCHANGED <<config, startsLeft, jobsLeft, sourcePayload, readers>>

\* A continuation of run `slot` has run: S with the run marked late when it was
\* superseded by then.
Continued(S, slot) ==
    [S EXCEPT !.runs[slot].late = @ \/ ~IsCurrent(Current, slot)]

\* What the startBatch of the current render holds besides its payload: the
\* results its applyImageAt closed over and the views of its buildViews.
Rendered(payload) ==
    [payload |-> payload, closure |-> WithImage(results),
     views |-> buildViews(elevation, distance)]

\* handleFileChange: the reader is started; its onload will call the startBatch
\* of this render, whose applyImageAt closed over the results of this render.
HandleFileChange(payload) ==
    /\ Settled
    /\ startsLeft > 0
    /\ Rendered(payload) \notin readers
    /\ startsLeft' = startsLeft - 1
    /\ readers' = readers \cup {Rendered(payload)}
    /\ UNCHANGED <<config, jobsLeft, runIdRef, ui, sourcePayload, runs, displayed>>

\* reader.onload
ReaderLoad(reader) ==
    /\ Settled
    /\ reader \in readers
    /\ readers' = readers \ {reader}
    /\ sourcePayload' = reader.payload
    /\ Becomes(startBatch(Current, reader.payload, reader.closure, reader.views))
    /\ UNCHANGED <<config, startsLeft, jobsLeft>>

\* handleRenderAll; its button is disabled while !sourcePayload || isRunning.
HandleRenderAll ==
    /\ Settled
    /\ startsLeft > 0
    /\ sourcePayload # NoValue
    /\ ~isRunning
    /\ startsLeft' = startsLeft - 1
    /\ Becomes(startBatch(Current, sourcePayload, WithImage(results),
                           buildViews(elevation, distance)))
    /\ UNCHANGED <<config, jobsLeft, sourcePayload, readers>>

\* The response to a task's POST arrives.
SubmitResponse(slot, index, res) ==
    /\ At(slot, index, "submitting")
    /\ res \in submitInputs
    /\ GivesJob(res) => jobsLeft > 0
    /\ jobsLeft' = IF GivesJob(res) THEN jobsLeft - 1 ELSE jobsLeft
    /\ Becomes(Continued(AfterSubmit(Current, slot, index, res), slot))
    /\ UNCHANGED <<config, startsLeft, sourcePayload, readers>>

\* The response to a task's status request arrives.
StatusResponse(slot, index, res) ==
    /\ At(slot, index, "polling")
    /\ res \in statusInputs
    /\ Becomes(Continued(AfterStatus(Current, slot, index, res), slot))
    /\ UNCHANGED <<config, startsLeft, jobsLeft, sourcePayload, readers>>

\* The delay between two poll attempts ends.
WaitElapsed(slot, index) ==
    /\ At(slot, index, "waiting")
    /\ Becomes(Continued(AfterWait(Current, slot, index), slot))
    /\ UNCHANGED <<config, startsLeft, jobsLeft, sourcePayload, readers>>

handleSelect(index) ==
    /\ Settled
    /\ index \in DOMAIN results
    /\ selectedIndex # index
    /\ selectedIndex' = index
    /\ UNCHANGED <<config, startsLeft, jobsLeft, runIdRef, results, statusMessage,
                   isRunning, sourcePayload, readers, runs>>
    /\ Render

\* handleKeyDown: step is 1 for ArrowRight and -1 for ArrowLeft.
handleKeyDown(step) ==
    /\ Settled
    /\ Length(results) # 0
    /\ selectedIndex' = wrapIndex(selectedIndex + step, Length(presets))
    /\ selectedIndex' # selectedIndex
    /\ UNCHANGED <<config, startsLeft, jobsLeft, runIdRef, results, statusMessage,
                   isRunning, sourcePayload, readers, runs>>
    /\ Render

\* handlePointerMove during a drag that began at startIndex, the pointer now
\* `step` steps away.
handlePointerMove(startIndex, step) ==
    /\ Settled
    /\ Length(results) # 0
    /\ selectedIndex' = wrapIndex(startIndex - step, Length(presets))
    /\ selectedIndex' # selectedIndex
    /\ UNCHANGED <<config, startsLeft, jobsLeft, runIdRef, results, statusMessage,
                   isRunning, sourcePayload, readers, runs>>
    /\ Render

\* An onChange that also opens a new epoch.
setElevationSuperseding(value) ==
    /\ Settled
    /\ value \in ElevationValues
    /\ elevation' = value
    /\ runIdRef' = runIdRef + 1
    /\ UNCHANGED <<presets, concurrency, pollLimit, submitInputs, statusInputs, distance,
                   startsLeft, jobsLeft, ui, sourcePayload, readers, runs, displayed,
                   chat, proxy>>

\* The onChange of the elevation range input.
setElevation(value) ==
    /\ Settled
    /\ value \in ElevationValues
    /\ elevation' = value
    /\ UNCHANGED <<presets, concurrency, pollLimit, submitInputs, statusInputs, distance,
                   startsLeft, jobsLeft, runIdRef, ui, sourcePayload, readers, runs,
                   displayed, chat, proxy>>

\* The onChange of the distance range input.
setDistance(value) ==
    /\ Settled
    /\ value \in DistanceValues
    /\ distance' = value
    /\ UNCHANGED <<presets, concurrency, pollLimit, submitInputs, statusInputs, elevation,
                   startsLeft, jobsLeft, runIdRef, ui, sourcePayload, readers, runs,
                   displayed, chat, proxy>>

Indices == 0..(Length(presets) - 1)

Next ==
    \/ \E payload \in Payloads : HandleFileChange(payload)
    \/ \E reader \in readers : ReaderLoad(reader)
    \/ HandleRenderAll
    \/ \E slot \in DOMAIN runs : BeginQueue(slot)
    \/ \E slot \in DOMAIN runs, index \in Indices, res \in submitInputs :
           SubmitResponse(slot, index, res)
    \/ \E slot \in DOMAIN runs, index \in Indices, res \in statusInputs :
           StatusResponse(slot, index, res)
    \/ \E slot \in DOMAIN runs, index \in Indices : WaitElapsed(slot, index)
    \/ \E index \in Indices : handleSelect(index)
    \/ \E step \in {-1, 1} : handleKeyDown(step)
    \/ \E startIndex \in Indices, step \in {-1, 1} : handlePointerMove(startIndex, step)

\* ------------------------------------------------------- the Chat component

\* What the user may have typed, and chatInput.trim().
ChatTexts == {"", "  ", " hi ", "yo"}
Trim(text) ==
    CASE text \in {"", "  "} -> ""
      [] text = " hi " -> "hi"
      [] OTHER -> text

\* The texts the component writes into messages.
MsgThinking == "(thinking)"
MsgNoReply == "(no reply)"
MsgReplyFailed == "(reply failed)"

\* A session of the auth provider, and none.
NoSession == NoValue
Sessions == {NoSession, "user-1"}

\* The answers of /api/chat: fetch rejects, or a response with its HTTP status,
\* the error of its body and the text of its completion.
ChatReply(thrown, status, error, text) ==
    [thrown |-> thrown, status |-> status, error |-> error, text |-> text]
ChatUnauthorized == ChatReply(NoValue, 401, "login required", NoValue)
ChatReplies ==
    {ChatReply("network down", 0, NoValue, NoValue),
     ChatUnauthorized,
     ChatReply(NoValue, 500, NoValue, NoValue),
     ChatReply(NoValue, 500, "upstream: overloaded", "partial"),
     ChatReply(NoValue, 200, NoValue, "hello"),
     ChatReply(NoValue, 200, NoValue, NoValue)}

ChatMessage(id, role, content, isLoading, error) ==
    [id |-> id, role |-> role, content |-> content, isLoading |-> isLoading,
     error |-> error]

NoTurn == [pc |-> "none", placeholderId |-> 0, session |-> NoSession]

\* The state after the component is mounted without a session.  ids counts the
\* calls of makeId, requests the chat requests issued, sent those issued since
\* a session last appeared or ended, store is the table chat_messages, turn the
\* handleSend that awaits its fetch (with the session of its render), load the
\* session whose history is being read and seen the number of rows the table
\* held when that query was sent.
ChatMounted ==
    [messages |-> <<>>, chatInput |-> "", chatStatus |-> "idle", guestTurns |-> 0,
     session |-> NoSession, showAuthModal |-> FALSE, historyStatus |-> "idle",
     turn |-> NoTurn, load |-> NoSession, store |-> <<>>, ids |-> 0, requests |-> 0,
     sent |-> 0, seen |-> 0]

\* persistMessage with the session of the render that called it; the insert is
\* taken to succeed.
persistMessage(C, session, role, content) ==
    IF session = NoSession THEN C
    ELSE [C EXCEPT !.store = Append(@, [user |-> session, role |-> role,
                                         content |-> content])]

\* A gate that lets a guest send twice.
handleSendTwoFree(C) ==
    LET trimmed == Trim(C.chatInput)
    IN IF trimmed = "" \/ C.chatStatus = "loading" THEN C
       ELSE IF C.session = NoSession /\ C.guestTurns >= 2
       THEN [C EXCEPT !.showAuthModal = TRUE]
       ELSE persistMessage(
                [C EXCEPT
                   !.ids = @ + 2,
                   !.messages =
                       @ \o <<ChatMessage(C.ids + 1, "user", trimmed, FALSE, NoValue),
                              ChatMessage(C.ids + 2, "assistant", MsgThinking, TRUE,
                                          NoValue)>>,
                   !.chatInput = "",
                   !.chatStatus = "loading",
                   !.guestTurns = IF C.session = NoSession THEN @ + 1 ELSE @,
                   !.turn = [pc |-> "awaiting", placeholderId |-> C.ids + 2,
                             session |-> C.session],
                   !.requests = @ + 1,
                   !.sent = @ + 1],
                C.session, "user", trimmed)

\* A handleSend that does not look at chatStatus.
handleSendWhileLoading(C) ==
    LET trimmed == Trim(C.chatInput)
    IN IF trimmed = "" THEN C
       ELSE IF C.session = NoSession /\ C.guestTurns >= 1
       THEN [C EXCEPT !.showAuthModal = TRUE]
       ELSE persistMessage(
                [C EXCEPT
                   !.ids = @ + 2,
                   !.messages =
                       @ \o <<ChatMessage(C.ids + 1, "user", trimmed, FALSE, NoValue),
                              ChatMessage(C.ids + 2, "assistant", MsgThinking, TRUE,
                                          NoValue)>>,
                   !.chatInput = "",
                   !.chatStatus = "loading",
                   !.guestTurns = IF C.session = NoSession THEN @ + 1 ELSE @,
                   !.turn = [pc |-> "awaiting", placeholderId |-> C.ids + 2,
                             session |-> C.session],
                   !.requests = @ + 1,
                   !.sent = @ + 1],
                C.session, "user", trimmed)

\* handleSend up to its fetch.
handleSend(C) ==
    LET trimmed == Trim(C.chatInput)
    IN IF trimmed = "" \/ C.chatStatus = "loading" THEN C
       ELSE IF C.session = NoSession /\ C.guestTurns >= 1
       THEN [C EXCEPT !.showAuthModal = TRUE]
       ELSE persistMessage(
                [C EXCEPT
                   !.ids = @ + 2,
                   !.messages =
                       @ \o <<ChatMessage(C.ids + 1, "user", trimmed, FALSE, NoValue),
                              ChatMessage(C.ids + 2, "assistant", MsgThinking, TRUE,
                                          NoValue)>>,
                   !.chatInput = "",
                   !.chatStatus = "loading",
                   !.guestTurns = IF C.session = NoSession THEN @ + 1 ELSE @,
                   !.turn = [pc |-> "awaiting", placeholderId |-> C.ids + 2,
                             session |-> C.session],
                   !.requests = @ + 1,
                   !.sent = @ + 1],
                C.session, "user", trimmed)

\* updateMessage(placeholderId, ...): the placeholder gets its final content.
updateMessage(C, id, content, error) ==
    [C EXCEPT !.messages =
        [n \in DOMAIN C.messages |->
            IF C.messages[n].id = id
            THEN [C.messages[n] EXCEPT !.content = content, !.isLoading = FALSE,
                                       !.error = error]
            ELSE C.messages[n]]]

removeMessage(C, id) ==
    [C EXCEPT !.messages = SelectSeq(@, LAMBDA message : message.id # id)]

\* A handleSend that treats 401 like every other failure.
AfterChatNoGate(C, res) ==
    LET id == C.turn.placeholderId
        D == [C EXCEPT !.turn = NoTurn, !.chatStatus = "idle"]
    IN IF res.thrown # NoValue
       THEN updateMessage(D, id, res.thrown, res.thrown)
       ELSE IF res.status # 200
       THEN LET error == IF res.error # NoValue THEN res.error ELSE MsgReplyFailed
            IN updateMessage(D, id, error, error)
       ELSE LET text == IF res.text # NoValue THEN res.text ELSE MsgNoReply
            IN persistMessage(updateMessage(D, id, text, NoValue), C.turn.session,
                              "assistant", text)

\* The rest of handleSend, given what its fetch gave.
AfterChat(C, res) ==
    LET id == C.turn.placeholderId
        D == [C EXCEPT !.turn = NoTurn, !.chatStatus = "idle"]
    IN IF res.thrown # NoValue
       THEN updateMessage(D, id, res.thrown, res.thrown)
       ELSE IF res.status = 401
       THEN [removeMessage(D, id) EXCEPT !.showAuthModal = TRUE]
       ELSE IF res.status # 200
       THEN LET error == IF res.error # NoValue THEN res.error ELSE MsgReplyFailed
            IN updateMessage(D, id, error, error)
       ELSE LET text == IF res.text # NoValue THEN res.text ELSE MsgNoReply
            IN persistMessage(updateMessage(D, id, text, NoValue), C.turn.session,
                              "assistant", text)

\* The rows of the session's user among the first n of chat_messages, oldest
\* first, as messages.
HistoryRows(C, session, n) ==
    LET rows == SelectSeq(SubSeq(C.store, 1, n), LAMBDA row : row.user = session)
    IN [k \in DOMAIN rows |->
           ChatMessage(0 - k, rows[k].role, rows[k].content, FALSE, NoValue)]

\* onAuthStateChange and the effects that follow the render: with a session the
\* dialog closes and guestTurns is 0 again; when the user changed, the messages
\* are emptied or their history is requested.
authStateChange(C, next) ==
    LET C1 == [C EXCEPT !.session = next,
                        !.sent = IF (next = NoSession) = (C.session = NoSession)
                                 THEN @ ELSE 0]
        C2 == IF next # NoSession
              THEN [C1 EXCEPT !.showAuthModal = FALSE, !.guestTurns = 0]
              ELSE C1
    IN IF next = C.session THEN C2
       ELSE IF next = NoSession
       THEN [C2 EXCEPT !.messages = <<>>, !.historyStatus = "idle", !.load = NoSession,
                       !.seen = 0]
       ELSE [C2 EXCEPT !.historyStatus = "loading", !.load = next,
                       !.seen = Len(C.store)]

\* loadHistory after its query, which read the table when it held n rows.
historyLoaded(C, ok, n) ==
    IF ok
    THEN [C EXCEPT !.messages = HistoryRows(C, C.load, n), !.historyStatus = "success",
                   !.load = NoSession, !.seen = 0]
    ELSE [C EXCEPT !.historyStatus = "error", !.load = NoSession, !.seen = 0]

\* The user types.
SetChatInput(text) ==
    /\ text \in ChatTexts
    /\ chat.chatInput # text
    /\ chat' = [chat EXCEPT !.chatInput = text]
    /\ UNCHANGED <<camera, proxy>>

\* A click on the send button, which is disabled while chatStatus is 'loading'.
HandleSend ==
    /\ chat.chatStatus # "loading"
    /\ handleSend(chat).requests <= MaxTurns
    /\ chat' = handleSend(chat)
    /\ UNCHANGED <<camera, proxy>>

\* The fetch of the pending turn settles.
ChatResponse(res) ==
    /\ chat.turn.pc = "awaiting"
    /\ res \in ChatReplies
    /\ chat' = AfterChat(chat, res)
    /\ UNCHANGED <<camera, proxy>>

\* The auth provider reports a session or its end.
AuthStateChange(next) ==
    /\ next \in Sessions
    /\ chat' = authStateChange(chat, next)
    /\ UNCHANGED <<camera, proxy>>

\* The history query of the present session's user returns; it was answered
\* at some moment since it was sent.
HistoryLoaded(ok, n) ==
    /\ chat.load # NoSession
    /\ n \in chat.seen..Len(chat.store)
    /\ chat' = historyLoaded(chat, ok, n)
    /\ UNCHANGED <<camera, proxy>>

closeAuthModal ==
    /\ chat.showAuthModal
    /\ chat' = [chat EXCEPT !.showAuthModal = FALSE]
    /\ UNCHANGED <<camera, proxy>>

NextChat ==
    \/ \E text \in ChatTexts : SetChatInput(text)
    \/ HandleSend
    \/ \E res \in ChatReplies : ChatResponse(res)
    \/ \E next \in Sessions : AuthStateChange(next)
    \/ \E ok \in BOOLEAN, n \in 0..(2 * MaxTurns) : HistoryLoaded(ok, n)
    \/ closeAuthModal

\* ------------------------------------------------------- the render proxy

\* Values of RUNPOD_ENDPOINT_URL, and resolveEndpoint: a trailing slash is cut.
EndpointUrls == {NoValue, "/", "https://api.runpod.ai/v2/qwen/", "https://api.runpod.ai/v2/qwen"}
resolveEndpoint(env) ==
    CASE env.RUNPOD_ENDPOINT_URL = "/" -> ""
      [] env.RUNPOD_ENDPOINT_URL = "https://api.runpod.ai/v2/qwen/" ->
             "https://api.runpod.ai/v2/qwen"
      [] OTHER -> env.RUNPOD_ENDPOINT_URL

\* The environments of a deployment.
Envs ==
    [RUNPOD_API_KEY : {NoValue, "rp-key"}, RUNPOD_ENDPOINT_URL : EndpointUrls,
     RUNPOD_WORKER_MODE : {NoValue, "ComfyUI"}]
ProductionEnv ==
    [RUNPOD_API_KEY |-> "rp-key", RUNPOD_ENDPOINT_URL |-> "https://api.runpod.ai/v2/qwen",
     RUNPOD_WORKER_MODE |-> NoValue]

\* qwen-workflow.json and qwen-node-map.json as deployed: not served, an empty
\* object, or usable; a node map may also name a node the workflow lacks.
ProductionAssets == [workflow |-> "ok", nodeMap |-> "ok"]
AssetSets ==
    {ProductionAssets} \cup
    [workflow : {"missing", "empty"}, nodeMap : {"ok"}] \cup
    [workflow : {"ok"}, nodeMap : {"missing", "empty", "stale"}]

\* An image as a data URL with nothing after its comma.
EmptyDataUrl == "data:image/png;base64,"

\* stripDataUrl
stripDataUrl(value) ==
    CASE value = DataUrl -> RawBase64
      [] value = EmptyDataUrl -> ""
      [] OTHER -> value

\* String(...).toLowerCase() of a worker mode.
ToLowerCase(value) == IF value = "ComfyUI" THEN "comfyui" ELSE value

\* a ?? b
Coalesce(a, b) == IF a # NoValue THEN a ELSE b

\* The bodies of a POST: text that is not JSON, JSON null, or an object (the
\* input itself or wrapped in {input}) with these fields.
BodyWithout(kind) ==
    [kind |-> kind, image_base64 |-> NoValue, image |-> NoValue, image_url |-> NoValue,
     worker_mode |-> NoValue, workflow |-> NoValue, apply_node_map |-> TRUE]
PostBodies ==
    {BodyWithout("garbage"), BodyWithout("null")} \cup
    [kind : {"object"},
     image_base64 : {NoValue, "", EmptyDataUrl, DataUrl},
     image : {NoValue, RawBase64},
     image_url : {NoValue, "", RawUrl},
     worker_mode : {NoValue, "comfyui"},
     workflow : {NoValue, "custom"},
     apply_node_map : BOOLEAN]

\* No request yet, and no answer yet.
NoBody == BodyWithout("none")
NoAnswer == [status |-> 0, json |-> FALSE, error |-> NoValue, data |-> NoValue]

\* The proxy as deployed, before any request.  pc: idle, image (awaiting
\* fetchImageBase64), upstream (awaiting the fetch of <endpoint>/run), responded,
\* threw (the handler rejected).  calls and fetches count the fetches of the
\* request in hand to the render endpoint and to an image URL.
Deployed(env, assets) ==
    [env |-> env, assets |-> assets, workflowCache |-> NoValue, nodeMapCache |-> NoValue,
     pc |-> "idle", body |-> NoBody, calls |-> 0, fetches |-> 0, url |-> NoValue,
     response |-> NoAnswer, posts |-> 0]

\* jsonResponse({error}, status)
jsonResponse(P, error, status) ==
    [P EXCEPT !.pc = "responded",
              !.response = [status |-> status, json |-> TRUE, error |-> error,
                            data |-> NoValue]]

\* fetch(`${endpoint}/run`, ...)
CallUpstream(P) ==
    [P EXCEPT !.pc = "upstream", !.calls = @ + 1,
              !.url = resolveEndpoint(P.env) \o "/run"]

\* The handler rejects.
Throws(P) == [P EXCEPT !.pc = "threw"]

\* The useComfyUi branch up to its fetch: the workflow of the request or the
\* cached template, the node map, applyNodeMap.
ComfyUi(P) ==
    LET input == P.body
        loaded == input.workflow = NoValue /\ P.workflowCache = NoValue
        P1 == IF loaded /\ P.assets.workflow # "missing"
              THEN [P EXCEPT !.workflowCache = P.assets.workflow] ELSE P
        workflow == IF input.workflow # NoValue THEN input.workflow ELSE P1.workflowCache
        P2 == IF P1.nodeMapCache = NoValue /\ P1.assets.nodeMap # "missing"
              THEN [P1 EXCEPT !.nodeMapCache = P1.assets.nodeMap] ELSE P1
        nodeMap == P2.nodeMapCache
        hasNodeMap == nodeMap \notin {NoValue, "empty"}
    IN IF workflow = NoValue THEN Throws(P)
       ELSE IF workflow = "empty"
       THEN jsonResponse(P1, "workflow.json is empty. Export a ComfyUI API workflow.", 500)
       ELSE IF input.apply_node_map /\ hasNodeMap
       THEN IF nodeMap = "stale" THEN Throws(P2) ELSE CallUpstream(P2)
       ELSE IF input.workflow = NoValue
       THEN jsonResponse(P2, "node_map.json is empty. Provide a node map or send workflow directly.",
                         500)
       ELSE CallUpstream(P2)

\* A handler that sends an empty image on.
AfterImageUnchecked(P, imageBase64) ==
    LET workerMode == ToLowerCase(Coalesce(P.body.worker_mode, P.env.RUNPOD_WORKER_MODE))
    IN IF workerMode = "comfyui" \/ P.body.workflow # NoValue
       THEN ComfyUi(P)
       ELSE CallUpstream(P)

\* onRequestPost from the test of imageBase64 on.
AfterImage(P, imageBase64) ==
    LET workerMode == ToLowerCase(Coalesce(P.body.worker_mode, P.env.RUNPOD_WORKER_MODE))
    IN IF imageBase64 = "" THEN jsonResponse(P, "image is empty.", 400)
       ELSE IF workerMode = "comfyui" \/ P.body.workflow # NoValue
       THEN ComfyUi(P)
       ELSE CallUpstream(P)

\* onRequestPost up to its first fetch.
onRequestPost(P, body) ==
    LET Q == [P EXCEPT !.body = body, !.calls = 0, !.fetches = 0, !.url = NoValue,
                       !.response = NoAnswer, !.posts = @ + 1]
    IN IF Q.env.RUNPOD_API_KEY = NoValue
       THEN jsonResponse(Q, "RUNPOD_API_KEY is not set.", 500)
       ELSE IF resolveEndpoint(Q.env) \in {NoValue, ""}
       THEN jsonResponse(Q, "RUNPOD_ENDPOINT_URL is not set.", 500)
       ELSE IF body.kind # "object"
       THEN jsonResponse(Q, "Invalid request body.", 400)
       ELSE LET imageValue == Coalesce(Coalesce(body.image_base64, body.image),
                                       body.image_url)
            IN IF imageValue \in {NoValue, ""}
               THEN jsonResponse(Q, "image is required.", 400)
               ELSE IF body.image_url \notin {NoValue, ""}
               THEN [Q EXCEPT !.pc = "image", !.fetches = @ + 1]
               ELSE AfterImage(Q, stripDataUrl(imageValue))

\* A request arrives while none is in hand.
Post(body) ==
    /\ proxy.pc \in {"idle", "responded", "threw"}
    /\ proxy.posts < MaxPosts
    /\ body \in PostBodies
    /\ proxy' = onRequestPost(proxy, body)
    /\ UNCHANGED <<camera, chat>>

\* fetchImageBase64 settles: it throws, or gives the base64 of what it read.
ImageFetched(content) ==
    /\ proxy.pc = "image"
    /\ content \in {NoValue, "", RawBase64}
    /\ proxy' = IF content = NoValue
                THEN jsonResponse(proxy, "Failed to fetch image_url.", 400)
                ELSE AfterImage(proxy, content)
    /\ UNCHANGED <<camera, chat>>

\* What the render endpoint may answer to /run.
UpstreamStatuses == {200, 400, 401, 500}
UpstreamTexts == {"{\"id\":\"job-1\"}", "Bad Gateway"}

\* The render endpoint answers: new Response(data, {status: upstream.status}).
UpstreamAnswered(status, data) ==
    /\ proxy.pc = "upstream"
    /\ status \in UpstreamStatuses
    /\ data \in UpstreamTexts
    /\ proxy' = [proxy EXCEPT !.pc = "responded",
                              !.response = [status |-> status, json |-> FALSE,
                                            error |-> NoValue, data |-> data]]
    /\ UNCHANGED <<camera, chat>>

\* The fetch of the render endpoint rejects.
UpstreamFailed ==
    /\ proxy.pc = "upstream"
    /\ proxy' = Throws(proxy)
    /\ UNCHANGED <<camera, chat>>

NextProxy ==
    \/ \E body \in PostBodies : Post(body)
    \/ \E content \in {NoValue, "", RawBase64} : ImageFetched(content)
    \/ \E status \in UpstreamStatuses, data \in UpstreamTexts : UpstreamAnswered(status, data)
    \/ UpstreamFailed

MountedState ==
    [runIdRef |-> 0, results |-> EmptyArray, selectedIndex |-> 0,
     statusMessage |-> MsgInitial, isRunning |-> FALSE, runs |-> <<>>]

Is(S) ==
    /\ runIdRef = S.runIdRef
    /\ results = S.results
    /\ selectedIndex = S.selectedIndex
    /\ statusMessage = S.statusMessage
    /\ isRunning = S.isRunning
    /\ runs = S.runs
    /\ displayed = findNearestImageIndex(S.selectedIndex, S.results)

\* The state after the component is mounted.
Mounted ==
    /\ sourcePayload = NoValue
    /\ readers = {}
    /\ Is(MountedState)

\* The state after the first upload has been read and startBatch has reset the
\* state for its run.
Uploaded ==
    /\ sourcePayload = SourceImage
    /\ readers = {}
    /\ Is(startBatch(MountedState, SourceImage, WithImage(EmptyArray),
                      buildViews(elevation, distance)))

\* The component with the first NumViews presets and MaxPoll poll attempts, the
\* user uploading and clicking at most MaxStarts times.
Init ==
    /\ presets = Prefix(ANGLE_PRESETS, NumViews)
    /\ concurrency = MAX_PARALLEL
    /\ pollLimit = MaxPoll
    /\ elevation = DefaultElevation
    /\ distance = DefaultDistance
    /\ chat = ChatMounted
    /\ proxy = Deployed(ProductionEnv, ProductionAssets)
    /\ submitInputs = {SubmitRejected, SubmitInline, SubmitJob}
    /\ statusInputs = {StatusFailed, StatusPending, StatusDone}
    /\ startsLeft = MaxStarts
    /\ jobsLeft = MaxJobs
    /\ Mounted

Spec == Init /\ [][Next]_vars

\* ---------------------------------------------- one run, the real poll budget

NextRun ==
    \/ \E slot \in DOMAIN runs : BeginQueue(slot)
    \/ \E slot \in DOMAIN runs, index \in Indices, res \in submitInputs :
           SubmitResponse(slot, index, res)
    \/ \E slot \in DOMAIN runs, index \in Indices, res \in statusInputs :
           StatusResponse(slot, index, res)
    \/ \E slot \in DOMAIN runs, index \in Indices : WaitElapsed(slot, index)

\* One run with pollJob's budget of 120 attempts, over one preset more than there
\* are runners.
InitPoll ==
    /\ presets = Prefix(ANGLE_PRESETS, MAX_PARALLEL + 1)
    /\ concurrency = MAX_PARALLEL
    /\ pollLimit = POLL_ATTEMPTS
    /\ elevation = DefaultElevation
    /\ distance = DefaultDistance
    /\ chat = ChatMounted
    /\ proxy = Deployed(ProductionEnv, ProductionAssets)
    /\ submitInputs = {SubmitRejected, SubmitInline, SubmitJob}
    /\ statusInputs = {StatusFailed, StatusPending, StatusDone}
    /\ startsLeft = 0
    /\ jobsLeft = MaxJobs
    /\ Uploaded

SpecPoll == InitPoll /\ [][NextRun]_vars

\* ------------------------------------- one run of runQueue, any list, any ceiling

NextQueue ==
    \/ \E slot \in DOMAIN runs : BeginQueue(slot)
    \/ \E slot \in DOMAIN runs, index \in Indices, res \in submitInputs :
           SubmitResponse(slot, index, res)

\* One run over any prefix of the presets and any ceiling up to MaxCeiling; every
\* submission is answered at once (with images or an error).
InitQueue ==
    /\ \E count \in 0..Length(ANGLE_PRESETS) : presets = Prefix(ANGLE_PRESETS, count)
    /\ concurrency \in 0..MaxCeiling
    /\ pollLimit = POLL_ATTEMPTS
    /\ elevation = DefaultElevation
    /\ distance = DefaultDistance
    /\ chat = ChatMounted
    /\ proxy = Deployed(ProductionEnv, ProductionAssets)
    /\ submitInputs = {SubmitRejected, SubmitInline}
    /\ statusInputs = {}
    /\ startsLeft = 0
    /\ jobsLeft = 0
    /\ Uploaded

SpecQueue == InitQueue /\ [][NextQueue]_vars

\* ------------------------------------------------ submitAngle with any payload

\* The tasks of one run calling submitAngle with a payload that is empty or not:
\* startBatch itself returns on an empty payload before it builds its tasks, so
\* here the payload of the run is replaced after the reset.
InitSubmit ==
    /\ \E count \in 0..Length(ANGLE_PRESETS) : presets = Prefix(ANGLE_PRESETS, count)
    /\ concurrency = MAX_PARALLEL
    /\ pollLimit = POLL_ATTEMPTS
    /\ elevation = DefaultElevation
    /\ distance = DefaultDistance
    /\ chat = ChatMounted
    /\ proxy = Deployed(ProductionEnv, ProductionAssets)
    /\ submitInputs = {SubmitRejected, SubmitInline}
    /\ statusInputs = {}
    /\ startsLeft = 0
    /\ jobsLeft = 0
    /\ readers = {}
    /\ sourcePayload \in Payloads
    /\ \E S \in {startBatch(MountedState, SourceImage, WithImage(EmptyArray),
                             buildViews(elevation, distance))} :
           Is([S EXCEPT !.runs[1].payload = sourcePayload])

SpecSubmit == InitSubmit /\ [][NextQueue]_vars

\* ---------------------------------------------------- every answer of the API

\* One run over NumViews presets whose submissions and status requests are
\* answered in every shape.
InitAnswers ==
    /\ presets = Prefix(ANGLE_PRESETS, NumViews)
    /\ concurrency = MAX_PARALLEL
    /\ pollLimit = MaxPoll
    /\ elevation = DefaultElevation
    /\ distance = DefaultDistance
    /\ chat = ChatMounted
    /\ proxy = Deployed(ProductionEnv, ProductionAssets)
    /\ submitInputs = SubmitResponses
    /\ statusInputs = StatusResponses
    /\ startsLeft = 0
    /\ jobsLeft = NumViews
    /\ Uploaded

SpecAnswers == InitAnswers /\ [][NextRun]_vars

\* -------------------------------------------------- a run under fair scheduling

\* The event loop runs every continuation that is ready, every request is
\* answered and every timer expires; the user is under no obligation.
Fairness ==
    /\ WF_vars(\E slot \in DOMAIN runs : BeginQueue(slot))
    /\ WF_vars(\E slot \in DOMAIN runs, index \in Indices, res \in submitInputs :
                  SubmitResponse(slot, index, res))
    /\ WF_vars(\E slot \in DOMAIN runs, index \in Indices, res \in statusInputs :
                  StatusResponse(slot, index, res))
    /\ WF_vars(\E slot \in DOMAIN runs, index \in Indices : WaitElapsed(slot, index))

\* One run over one preset more than there are runners, never superseded, with
\* MaxPoll poll attempts.
InitLive ==
    /\ presets = Prefix(ANGLE_PRESETS, MAX_PARALLEL + 1)
    /\ concurrency = MAX_PARALLEL
    /\ pollLimit = MaxPoll
    /\ elevation = DefaultElevation
    /\ distance = DefaultDistance
    /\ chat = ChatMounted
    /\ proxy = Deployed(ProductionEnv, ProductionAssets)
    /\ submitInputs = {SubmitRejected, SubmitInline, SubmitJob}
    /\ statusInputs = {StatusFailed, StatusPending, StatusDone}
    /\ startsLeft = 0
    /\ jobsLeft = MaxJobs
    /\ Uploaded

FairSpec == InitLive /\ [][NextRun]_vars /\ Fairness

\* One run as in InitLive, with every way a view can fail among the answers.
InitFailures ==
    /\ presets = Prefix(ANGLE_PRESETS, MAX_PARALLEL + 1)
    /\ concurrency = MAX_PARALLEL
    /\ pollLimit = MaxPoll
    /\ elevation = DefaultElevation
    /\ distance = DefaultDistance
    /\ chat = ChatMounted
    /\ proxy = Deployed(ProductionEnv, ProductionAssets)
    /\ submitInputs = {SubmitRejected, SubmitEmpty, SubmitInline, SubmitJob}
    /\ statusInputs = {StatusRejected, StatusFailed, StatusPending, StatusDone}
    /\ startsLeft = 0
    /\ jobsLeft = MaxJobs
    /\ Uploaded

FairSpecFailures == InitFailures /\ [][NextRun]_vars /\ Fairness

\* ------------------------------------ a new run after a completed run of 8 views

\* The first run with its submissions answered in index order by outcomes[k].
RECURSIVE Answered(_, _, _)
Answered(S, outcomes, k) ==
    IF k >= Length(presets) THEN S
    ELSE CHOOSE R \in {Answered(T, outcomes, k + 1) :
                          T \in {AfterSubmit(S, 1, k, outcomes[k])}} : TRUE

FirstRun ==
    runQueue(startBatch(MountedState, SourceImage, WithImage(EmptyArray),
                        buildViews(elevation, distance)), 1)

NextRestart ==
    \/ \E payload \in Payloads : HandleFileChange(payload)
    \/ \E reader \in readers : ReaderLoad(reader)
    \/ HandleRenderAll
    \/ \E slot \in DOMAIN runs : BeginQueue(slot)
    \/ \E index \in Indices : handleSelect(index)

\* The component after a first run over all presets has completed, each view
\* with an image or with an error.
InitRestart ==
    /\ presets = ANGLE_PRESETS
    /\ concurrency = MAX_PARALLEL
    /\ pollLimit = POLL_ATTEMPTS
    /\ elevation = DefaultElevation
    /\ distance = DefaultDistance
    /\ chat = ChatMounted
    /\ proxy = Deployed(ProductionEnv, ProductionAssets)
    /\ submitInputs = {SubmitRejected, SubmitInline}
    /\ statusInputs = {}
    /\ startsLeft = 1
    /\ jobsLeft = 0
    /\ sourcePayload = SourceImage
    /\ readers = {}
    /\ \E outcomes \in [DOMAIN ANGLE_PRESETS -> {SubmitRejected, SubmitInline}] :
           \E S \in {Answered(T, outcomes, 0) : T \in {FirstRun}} : Is(S)

SpecRestart == InitRestart /\ [][NextRestart]_vars

\* ------------------------------------------- an upload while the first run works

NextSupersede ==
    \/ \E payload \in Payloads : HandleFileChange(payload)
    \/ \E reader \in readers : ReaderLoad(reader)
    \/ \E slot \in DOMAIN runs : BeginQueue(slot)
    \/ \E slot \in DOMAIN runs, index \in Indices, res \in submitInputs :
           SubmitResponse(slot, index, res)

\* The first run over two presets more than there are runners, every
\* submission answered with its images, and the user choosing one more file at
\* any moment.
InitSupersede ==
    /\ presets = Prefix(ANGLE_PRESETS, MAX_PARALLEL + 2)
    /\ concurrency = MAX_PARALLEL
    /\ pollLimit = POLL_ATTEMPTS
    /\ elevation = DefaultElevation
    /\ distance = DefaultDistance
    /\ chat = ChatMounted
    /\ proxy = Deployed(ProductionEnv, ProductionAssets)
    /\ submitInputs = {SubmitInline}
    /\ statusInputs = {}
    /\ startsLeft = 1
    /\ jobsLeft = 0
    /\ Uploaded

SpecSupersede == InitSupersede /\ [][NextSupersede]_vars

\* ------------------------------------------- the sliders move while a run works

NextChange ==
    \/ \E value \in ElevationValues : setElevation(value)
    \/ \E value \in DistanceValues : setDistance(value)
    \/ \E slot \in DOMAIN runs : BeginQueue(slot)
    \/ \E slot \in DOMAIN runs, index \in Indices, res \in submitInputs :
           SubmitResponse(slot, index, res)

\* The first run over one preset more than there are runners, started with the
\* sliders untouched; the user moves the sliders at any moment.
InitChange ==
    /\ presets = Prefix(ANGLE_PRESETS, MAX_PARALLEL + 1)
    /\ concurrency = MAX_PARALLEL
    /\ pollLimit = POLL_ATTEMPTS
    /\ elevation = DefaultElevation
    /\ distance = DefaultDistance
    /\ chat = ChatMounted
    /\ proxy = Deployed(ProductionEnv, ProductionAssets)
    /\ submitInputs = {SubmitRejected, SubmitInline}
    /\ statusInputs = {}
    /\ startsLeft = 0
    /\ jobsLeft = 0
    /\ Uploaded

SpecChange == InitChange /\ [][NextChange]_vars

\* ------------------------------------------ the displayed view, any result list

NextNearest ==
    \/ \E index \in Indices : handleSelect(index)
    \/ \E step \in {-1, 1} : handleKeyDown(step)

\* A result list over any prefix of the presets, each view with or without an
\* image, and any selection within the list.
InitNearest ==
    /\ \E count \in 0..Length(ANGLE_PRESETS) : presets = Prefix(ANGLE_PRESETS, count)
    /\ concurrency = MAX_PARALLEL
    /\ pollLimit = POLL_ATTEMPTS
    /\ elevation = DefaultElevation
    /\ distance = DefaultDistance
    /\ chat = ChatMounted
    /\ proxy = Deployed(ProductionEnv, ProductionAssets)
    /\ submitInputs = {}
    /\ statusInputs = {}
    /\ startsLeft = 0
    /\ jobsLeft = 0
    /\ sourcePayload = SourceImage
    /\ readers = {}
    /\ runIdRef = 0
    /\ runs = <<>>
    /\ statusMessage = MsgInitial
    /\ isRunning = FALSE
    /\ \E images \in [DOMAIN presets -> {NoValue, RawUrl}] :
           results = [k \in DOMAIN presets |->
                         [azimuth |-> presets[k], elevation |-> elevation,
                          distance |-> distance,
                          status |-> IF images[k] = NoValue THEN "queued" ELSE "done",
                          image |-> images[k], error |-> NoValue]]
    /\ selectedIndex \in (DOMAIN results) \cup {0}
    /\ displayed = findNearestImageIndex(selectedIndex, results)

SpecNearest == InitNearest /\ [][NextNearest]_vars

\* ------------------------------------------- the sliders and the views of a run

NextSettings ==
    \/ \E value \in ElevationValues : setElevation(value)
    \/ \E value \in DistanceValues : setDistance(value)
    \/ \E payload \in Payloads : HandleFileChange(payload)
    \/ \E reader \in readers : ReaderLoad(reader)
    \/ \E slot \in DOMAIN runs : BeginQueue(slot)

\* The mounted component: the user moves the two sliders and uploads one image,
\* and the run submits its first views.
InitSettings ==
    /\ presets = ANGLE_PRESETS
    /\ concurrency = MAX_PARALLEL
    /\ pollLimit = POLL_ATTEMPTS
    /\ elevation = DefaultElevation
    /\ distance = DefaultDistance
    /\ chat = ChatMounted
    /\ proxy = Deployed(ProductionEnv, ProductionAssets)
    /\ submitInputs = {}
    /\ statusInputs = {}
    /\ startsLeft = 1
    /\ jobsLeft = 0
    /\ Mounted

SpecSettings == InitSettings /\ [][NextSettings]_vars

\* -------------------------------------------------------------- the chat page

\* The Chat component mounted without a session; the Camera component idle.
InitChat ==
    /\ presets = ANGLE_PRESETS
    /\ concurrency = MAX_PARALLEL
    /\ pollLimit = POLL_ATTEMPTS
    /\ elevation = DefaultElevation
    /\ distance = DefaultDistance
    /\ chat = ChatMounted
    /\ proxy = Deployed(ProductionEnv, ProductionAssets)
    /\ submitInputs = {}
    /\ statusInputs = {}
    /\ startsLeft = 0
    /\ jobsLeft = 0
    /\ Mounted

SpecChat == InitChat /\ [][NextChat]_vars

\* The fetch of a pending turn settles: its promise resolves or rejects.
FairnessChat == WF_vars(\E res \in ChatReplies : ChatResponse(res))

FairSpecChat == SpecChat /\ FairnessChat

\* ------------------------------------------------------------- the render proxy

\* Any deployment of the proxy; the two components idle.
InitProxy ==
    /\ presets = ANGLE_PRESETS
    /\ concurrency = MAX_PARALLEL
    /\ pollLimit = POLL_ATTEMPTS
    /\ elevation = DefaultElevation
    /\ distance = DefaultDistance
    /\ chat = ChatMounted
    /\ \E env \in Envs, assets \in AssetSets : proxy = Deployed(env, assets)
    /\ submitInputs = {}
    /\ statusInputs = {}
    /\ startsLeft = 0
    /\ jobsLeft = 0
    /\ Mounted

SpecProxy == InitProxy /\ [][NextProxy]_vars

\* ------------------------------------------------------------- the properties

\* The tasks of a run that have been started and have not resolved.
InFlight(run) == {k \in DOMAIN run.task : run.task[k].pc \notin {"idle", "resolved"}}

\* The tasks below i that have resolved.
ResolvedBelow(run, i) == {k \in DOMAIN run.task : k < i /\ run.task[k].pc = "resolved"}

\* C1  Epoch supersession: once a later run has started, no continuation of an
\* earlier run changes the result list, the selected index, the status text or
\* the isRunning flag.
EpochSupersession ==
    [][\A slot \in DOMAIN runs :
          (runs[slot].runId # runIdRef /\ runs'[slot] # runs[slot]) => UNCHANGED ui]_vars

\* C1 happens: continuations of a superseded run have run, to the end of its
\* startBatch, while the run that superseded it is still rendering.
SupersededRunContinued ==
    \E slot \in DOMAIN runs :
        /\ runs[slot].late
        /\ runs[slot].runId # runIdRef
        /\ runs[slot].pc = "finished"
        /\ isRunning

\* C2  For a ceiling of at least 1, the tasks started and not yet resolved are
\* never more than the ceiling.
CeilingRespected ==
    \A slot \in DOMAIN runs :
        concurrency >= 1 => Cardinality(InFlight(runs[slot])) <= concurrency

\* C2 happens: a run of all presets under MAX_PARALLEL has as many tasks in flight
\* as the ceiling allows, with tasks resolved before them and tasks still to start.
CeilingReached ==
    \E slot \in DOMAIN runs :
        /\ presets = ANGLE_PRESETS
        /\ concurrency = MAX_PARALLEL
        /\ Cardinality(InFlight(runs[slot])) = MAX_PARALLEL
        /\ \E k \in DOMAIN runs[slot].task : runs[slot].task[k].pc = "resolved"
        /\ \E k \in DOMAIN runs[slot].task : runs[slot].task[k].pc = "idle"

\* C3  runQueue starts no task twice, and when it completes every task of the
\* list has been started once and has resolved.
EveryTaskOnce ==
    \A slot \in DOMAIN runs :
        LET run == runs[slot]
        IN /\ \A k \in DOMAIN run.task :
                  /\ run.task[k].starts <= 1
                  /\ run.task[k].starts = 0 <=> run.task[k].pc = "idle"
           /\ run.pc = "finished" =>
                  \A k \in DOMAIN run.task :
                      run.task[k].starts = 1 /\ run.task[k].pc = "resolved"

\* C3 happens: runQueue has completed for all presets with fewer runners than
\* tasks.
QueueCompleted ==
    \E slot \in DOMAIN runs :
        /\ runs[slot].pc = "finished"
        /\ presets = ANGLE_PRESETS
        /\ concurrency = 2
        /\ \A k \in DOMAIN runs[slot].task : runs[slot].task[k].starts = 1

PollTerminates ==
    /\ [](\A slot \in DOMAIN runs : \A k \in DOMAIN runs[slot].task :
             Requests(runs[slot].task[k]) <= POLL_ATTEMPTS)
    /\ [][\A slot \in DOMAIN runs : \A k \in DOMAIN runs[slot].task :
             (/\ runs[slot].task[k].pc = "waiting"
              /\ runs[slot].task[k].i = POLL_ATTEMPTS - 1
              /\ runs[slot].runId = runIdRef
              /\ runs'[slot].task[k] # runs[slot].task[k])
             => /\ runs'[slot].task[k].pc = "resolved"
                /\ results'[k].error = MsgTimedOut]_vars

\* C5 happens: a job was polled 120 times and its view has timed out.
PollTimedOut ==
    \E slot \in DOMAIN runs : \E k \in DOMAIN results :
        /\ results[k].error = MsgTimedOut
        /\ runs[slot].task[k].pc = "resolved"
        /\ runs[slot].runId = runIdRef

\* C6  If a run is never superseded, and every request is answered and every
\* continuation scheduled, then from some point on every view of the run is done
\* or error: none stays queued or running.
AllViewsSettle ==
    <>[](runs[1].runId = runIdRef) =>
        <>[](/\ DOMAIN results = DOMAIN runs[1].task
             /\ DOMAIN results = DOMAIN presets
             /\ \A k \in DOMAIN results : results[k].status \in {"done", "error"})

\* C6 happens: the run has completed, its views done or in error, one of them
\* after a timeout and the view that had to wait for a runner done.
RunSettled ==
    /\ runs[1].runId = runIdRef
    /\ runs[1].pc = "finished"
    /\ \A k \in DOMAIN results : results[k].status \in {"done", "error"}
    /\ \E k \in DOMAIN results : results[k].error = MsgTimedOut
    /\ results[MAX_PARALLEL].status = "done"

\* C7  Under the ceiling MAX_PARALLEL = 3, once runQueue has been called views
\* 0, 1 and 2 have been submitted, before any response; a view i >= 3 has been
\* submitted only if at least i - 2 of the tasks before it have resolved.
SubmissionOrder ==
    \A slot \in DOMAIN runs :
        LET run == runs[slot]
        IN (concurrency = 3 /\ run.pc # "created") =>
               \A i \in DOMAIN run.task :
                   /\ i < 3 => run.task[i].pc # "idle"
                   /\ (i >= 3 /\ run.task[i].pc # "idle") =>
                          Cardinality(ResolvedBelow(run, i)) >= i - 2

\* C7 happens: in a run of the 8 presets view 3 is submitted, one of the views
\* 0..2 has resolved and view 4 waits.
FourthSubmitted ==
    \E slot \in DOMAIN runs :
        /\ presets = ANGLE_PRESETS
        /\ concurrency = 3
        /\ runs[slot].task[3].pc = "submitting"
        /\ Cardinality(ResolvedBelow(runs[slot], 3)) = 1
        /\ runs[slot].task[4].pc = "idle"

TimeoutIsLocal ==
    [][\A slot \in DOMAIN runs, index \in Indices :
          (/\ WaitElapsed(slot, index)
           /\ runs[slot].task[index].i = POLL_ATTEMPTS - 1
           /\ runs[slot].runId = runIdRef)
          => /\ results'[index] = [results[index] EXCEPT !.status = "error",
                                                         !.error = MsgTimedOut]
             /\ \A k \in DOMAIN results \ {index} :
                    \/ results'[k] = results[k]
                    \/ /\ runs[slot].task[k].pc = "idle"
                       /\ runs'[slot].task[k].pc # "idle"
                       /\ results[k].status = "queued"
                       /\ results'[k] = [results[k] EXCEPT !.status = "running"]]_vars

\* C9 happens: a view has timed out while another view is done, another is in
\* error for another reason and another is still running.
TimedOutAmongOthers ==
    \E k \in DOMAIN results :
        /\ results[k].status = "error"
        /\ results[k].error = MsgTimedOut
        /\ \E j \in DOMAIN results : results[j].status = "done"
        /\ \E j \in DOMAIN results : results[j].status = "running"
        /\ \E j \in DOMAIN results :
               results[j].status = "error" /\ results[j].error # MsgTimedOut

\* C10  findNearestImageIndex returns the selected index when that view has an
\* image, otherwise the index of a view that has one, and -1 exactly when no
\* view has an image.
NearestHasImage ==
    /\ HasImage(results, selectedIndex) => displayed = selectedIndex
    /\ displayed # -1 => HasImage(results, displayed)
    /\ displayed = -1 <=> \A k \in DOMAIN results : ~HasImage(results, k)

\* C10 happens: for [done, queued, queued, done] and selection 1 the displayed
\* view is 0 or 3.
NearestOfFour ==
    /\ Length(results) = 4
    /\ [k \in DOMAIN results |-> results[k].status] =
           [k \in 0..3 |-> IF k \in {0, 3} THEN "done" ELSE "queued"]
    /\ selectedIndex = 1
    /\ displayed \in {0, 3}

\* The tasks of a run that have built their prompt.
Prompted(run) == {k \in DOMAIN run.task : run.task[k].prompt # NoPrompt}

\* r is an option nearest to v, and the first of the options that near.
NearestFirst(v, options, r) ==
    \E j \in DOMAIN options :
        /\ options[j] = r
        /\ \A i \in DOMAIN options : ~Less(AbsDiff(options[i], v), AbsDiff(r, v))
        /\ \A i \in DOMAIN options : i < j => Less(AbsDiff(r, v), AbsDiff(options[i], v))

\* C11  snapToNearest is idempotent on each axis: snapping the presets a task's
\* prompt was built from gives the same presets, and every preset of the three
\* lists snaps to itself.
SnapIdempotent ==
    /\ \A slot \in DOMAIN runs : \A k \in Prompted(runs[slot]) :
           buildAnglePrompt(runs[slot].task[k].prompt) = runs[slot].task[k].prompt
    /\ \A i \in DOMAIN AzimuthOptions :
           snapToNearest(AzimuthOptions[i], AzimuthOptions) = AzimuthOptions[i]
    /\ \A i \in DOMAIN ElevationOptions :
           snapToNearest(ElevationOptions[i], ElevationOptions) = ElevationOptions[i]
    /\ \A i \in DOMAIN DistanceOptions :
           snapToNearest(DistanceOptions[i], DistanceOptions) = DistanceOptions[i]

\* C11 happens: the first MAX_PARALLEL tasks have built their prompts, for views
\* whose elevation and distance are not presets.
SnappedOffPreset ==
    \E slot \in DOMAIN runs :
        /\ Prompted(runs[slot]) = 0..(MAX_PARALLEL - 1)
        /\ runs[slot].views[0].elevation \notin ELEVATION_KEYS
        /\ runs[slot].views[0].distance \notin DISTANCE_KEYS
        /\ runs[slot].task[0].prompt.elevation \in ELEVATION_KEYS
        /\ runs[slot].task[0].prompt.distance \in DISTANCE_KEYS

\* C19  On each axis the preset in a task's prompt is a member of the preset
\* list at minimal absolute distance from the view's value, and the first such
\* member of the ascending list when two are equally near.
SnapNearestFirst ==
    \A slot \in DOMAIN runs : \A k \in Prompted(runs[slot]) :
        LET view == runs[slot].views[k]
            prompt == runs[slot].task[k].prompt
        IN /\ NearestFirst(Whole(view.azimuth), AzimuthOptions, Whole(prompt.azimuth))
           /\ NearestFirst(Whole(view.elevation), ElevationOptions, Whole(prompt.elevation))
           /\ NearestFirst(Tenths(view.distance), DistanceOptions, Tenths(prompt.distance))

\* C19 happens: the elevation 15 is equally near to 0 and 30 and the distance 1.2
\* is equally near to 1.0 and 1.4, and the prompt has the earlier preset of each.
SnappedTie ==
    \E slot \in DOMAIN runs : \E k \in Prompted(runs[slot]) :
        /\ runs[slot].views[k].elevation = 15
        /\ runs[slot].views[k].distance = 12
        /\ runs[slot].task[k].prompt.elevation = 0
        /\ runs[slot].task[k].prompt.distance = 10

\* C20 as stated: every record of the result list has its azimuth, elevation
\* and distance in the preset sets.
RecordsHoldPresets ==
    \A k \in DOMAIN results :
        /\ results[k].azimuth \in AZIMUTH_KEYS
        /\ results[k].elevation \in ELEVATION_KEYS
        /\ results[k].distance \in DISTANCE_KEYS

\* C20  Every record of the result list has the azimuth preset of its position
\* and the elevation and distance of its run's views, which are values of the two
\* sliders; the presets are in the prompts only.
RecordsHoldSliderValues ==
    /\ \A k \in DOMAIN results :
           /\ results[k].azimuth = ANGLE_PRESETS[k]
           /\ results[k].elevation \in ElevationValues
           /\ results[k].distance \in DistanceValues
    /\ \A slot \in DOMAIN runs :
           /\ runs[slot].runId = runIdRef =>
                  \A k \in DOMAIN results :
                      /\ results[k].elevation = runs[slot].views[k].elevation
                      /\ results[k].distance = runs[slot].views[k].distance
           /\ \A k \in Prompted(runs[slot]) :
                  /\ runs[slot].task[k].prompt.azimuth \in AZIMUTH_KEYS
                  /\ runs[slot].task[k].prompt.elevation \in ELEVATION_KEYS
                  /\ runs[slot].task[k].prompt.distance \in DISTANCE_KEYS

\* C20 happens: the records of a run hold an elevation and a distance that are
\* not presets, which the user set before choosing the file and changed before
\* the file was read.
RecordsOffPreset ==
    /\ results # EmptyArray
    /\ \A k \in DOMAIN results :
           /\ results[k].elevation \notin ELEVATION_KEYS
           /\ results[k].distance \notin DISTANCE_KEYS
           /\ results[k].elevation # elevation
           /\ results[k].elevation # DefaultElevation
    /\ Prompted(runs[1]) # {}

\* C12  While no new run resets the list, the status of a view only changes
\* from queued to running and from running to done or to error: done and error
\* are final, and no view goes back to queued or running.
StatusTransitions ==
    [][runIdRef' = runIdRef =>
          /\ DOMAIN results' = DOMAIN results
          /\ \A k \in DOMAIN results :
                 \/ results'[k].status = results[k].status
                 \/ <<results[k].status, results'[k].status>> \in
                        {<<"queued", "running">>, <<"running", "done">>,
                         <<"running", "error">>}]_vars

\* C12 happens: in the second run one view has gone to done and another to
\* error, while continuations of the first run were still arriving.
BothOutcomes ==
    /\ Len(runs) = 2
    /\ runs[1].late
    /\ \E k \in DOMAIN results : results[k].status = "done"
    /\ \E k \in DOMAIN results : results[k].status = "error"

\* C13  The epoch never decreases: a step changes runIdRef only by adding 1, it
\* does so exactly when it is a startBatch call with a non-empty payload (from
\* the button or from a loaded file), which is when a run is created, and no
\* two runs have the same epoch.
EpochMonotone ==
    /\ [](\A i \in DOMAIN runs : \A j \in DOMAIN runs :
             i # j => runs[i].runId # runs[j].runId)
    /\ [][/\ runIdRef' \in {runIdRef, runIdRef + 1}
          /\ runIdRef' = runIdRef + 1 <=>
                 \/ HandleRenderAll
                 \/ \E reader \in readers : reader.payload # NoValue /\ ReaderLoad(reader)
          /\ runIdRef' = runIdRef + 1 <=> Len(runs') = Len(runs) + 1
          /\ Len(runs') # Len(runs) => runs'[Len(runs')].runId = runIdRef']_vars

\* C13 happens: two runs were started and both have completed, the first after
\* it was superseded.
TwoEpochs ==
    /\ runIdRef = 2
    /\ Len(runs) = 2
    /\ runs[1].late
    /\ runs[1].pc = "finished"
    /\ runs[2].pc = "finished"

\* C14  A poller of a superseded run issues no new status request: a step never
\* takes one of its tasks to a status request, and when the delay of such a task
\* ends the task resolves, with no change of the UI state.
PollersCancelled ==
    [][\A slot \in DOMAIN runs : \A index \in DOMAIN runs[slot].task :
          LET task == runs[slot].task[index]
              next == runs'[slot].task[index]
          IN (runs[slot].runId # runIdRef /\ next # task) =>
                 /\ next.pc # "polling"
                 /\ task.pc = "polling" => next.pc \in {"waiting", "resolved"}
                 /\ task.pc = "waiting" =>
                        next.pc = "resolved" /\ next.dropped /\ UNCHANGED ui]_vars

\* C14 happens: a poller was in its delay when its run was superseded and has
\* returned at the end of the delay.
PollerCancelled ==
    \E slot \in DOMAIN runs : \E index \in DOMAIN runs[slot].task :
        /\ runs[slot].task[index].from = "waiting"
        /\ runs[slot].task[index].dropped
        /\ runs[slot].pc = "finished"

\* C15  A task of a superseded run that has not started issues no submission:
\* the step that starts it is a step of an old runner, the task returns in that
\* step without a prompt, without a request and without a change of the UI
\* state, and by the time the old run has finished every one of its tasks has
\* been called once.
UnstartedTasksReturn ==
    /\ [](\A slot \in DOMAIN runs :
             (runs[slot].runId # runIdRef /\ runs[slot].pc = "finished") =>
                 \A index \in DOMAIN runs[slot].task :
                     /\ runs[slot].task[index].starts = 1
                     /\ runs[slot].task[index].pc = "resolved")
    /\ [][\A slot \in DOMAIN runs : \A index \in DOMAIN runs[slot].task :
             LET task == runs[slot].task[index]
                 next == runs'[slot].task[index]
             IN (runs[slot].runId # runIdRef /\ task.pc = "idle" /\ next # task) =>
                    /\ next = [task EXCEPT !.pc = "resolved", !.starts = 1,
                                           !.from = "idle", !.dropped = TRUE]
                    /\ \E w \in DOMAIN runs[slot].runner :
                           /\ runs[slot].runner[w].pc = "awaiting"
                           /\ runs'[slot].runner[w].pc = "returned"
                    /\ UNCHANGED ui]_vars

\* C15 happens: the second run started while the first one was active, and the
\* runners of the first have since taken both of its remaining tasks.
OldRunDrained ==
    /\ Len(runs) = 2
    /\ runs[1].pc = "finished"
    /\ runs[2].pc # "created"
    /\ \A index \in {MAX_PARALLEL, MAX_PARALLEL + 1} :
           runs[1].task[index].from = "idle" /\ runs[1].task[index].dropped

\* The texts a failed view can carry.
FailureTexts ==
    {MsgRequestFailed, MsgMissingJobId, MsgStatusFailed, MsgRenderFailed, MsgTimedOut,
     StatusFailed.error}

\* C16  The step in which a view fails sets that view's status and error text
\* and leaves every other record as it was, but for a queued view that the freed
\* runner starts in the same step; and once a view has failed, every task is
\* still called once and every view ends done or in error.
FailureIsLocal ==
    /\ [][\A index \in DOMAIN results :
             (results[index].status # "error" /\ results'[index].status = "error") =>
                 /\ results'[index].error \in FailureTexts
                 /\ results'[index] =
                        [results[index] EXCEPT !.status = "error",
                                               !.error = results'[index].error]
                 /\ \A k \in DOMAIN results \ {index} :
                        \/ results'[k] = results[k]
                        \/ /\ runs[1].task[k].pc = "idle"
                           /\ runs'[1].task[k].pc = "submitting"
                           /\ results[k].status = "queued"
                           /\ results'[k] = [results[k] EXCEPT !.status = "running"]]_vars
    /\ (\E index \in DOMAIN results : results[index].status = "error")
           ~> (/\ runs[1].pc = "finished"
               /\ \A k \in DOMAIN results :
                      /\ runs[1].task[k].starts = 1
                      /\ runs[1].task[k].pc = "resolved"
                      /\ results[k].status \in {"done", "error"})

\* C16 happens: the first view failed at submission, another failed at its status
\* request, and the view that was queued behind them has its image.
FailedAmongDone ==
    /\ runs[1].pc = "finished"
    /\ results[0].error = MsgRequestFailed
    /\ \E j \in DOMAIN results : results[j].error = MsgStatusFailed
    /\ results[MAX_PARALLEL].status = "done"
    /\ results[MAX_PARALLEL].image # NoValue

\* C17  submitAngle with an empty payload fails with 'Image is missing.' before
\* any request: no task of such a run ever has a request out, and every task
\* that was called has resolved from its start with that text as the error of
\* its view.  With an image the text never appears.
EmptyPayloadFails ==
    \A index \in DOMAIN runs[1].task :
        LET task == runs[1].task[index]
        IN IF runs[1].payload = NoValue
           THEN /\ task.pc \in {"idle", "resolved"}
                /\ task.starts = 1 =>
                       /\ task.pc = "resolved"
                       /\ task.from = "idle"
                       /\ results[index].status = "error"
                       /\ results[index].error = MsgImageMissing
                       /\ results[index].image = NoValue
           ELSE results[index].error # MsgImageMissing

\* C17 happens: all eight tasks called submitAngle with an empty payload and the
\* run has ended.
EmptyPayloadRun ==
    /\ runs[1].payload = NoValue
    /\ runs[1].pc = "finished"
    /\ Length(results) = Length(ANGLE_PRESETS)
    /\ \A index \in DOMAIN results : results[index].error = MsgImageMissing
    /\ ~isRunning

\* The distance of two positions on a ring of n.
CircularDistance(a, b, n) ==
    LET d == IF a >= b THEN a - b ELSE b - a
    IN IF d <= n - d THEN d ELSE n - d

\* C18  When the selected view has no image and some view has one, the
\* displayed view has an image, no view with an image is nearer to the selection
\* on the ring, and when the views at that distance to the right and to the left
\* both have an image the displayed one is the right one.
NearestIsClosest ==
    (~HasImage(results, selectedIndex) /\ WithImage(results) # {}) =>
        LET n == Length(results)
            d == CircularDistance(selectedIndex, displayed, n)
        IN /\ HasImage(results, displayed)
           /\ \A k \in WithImage(results) : d <= CircularDistance(selectedIndex, k, n)
           /\ displayed \in {wrapIndex(selectedIndex + d, n), wrapIndex(selectedIndex - d, n)}
           /\ HasImage(results, wrapIndex(selectedIndex + d, n)) =>
                  displayed = wrapIndex(selectedIndex + d, n)

\* C18 happens: of eight views only those two to the right and two to the left
\* of the selection have an image, and the one to the right is displayed.
NearestTieRight ==
    /\ Length(results) = Length(ANGLE_PRESETS)
    /\ selectedIndex = 1
    /\ WithImage(results) = {3, 7}
    /\ displayed = 3

\* C21  The step in which the runners of a run have joined writes 'Completed.'
\* and clears isRunning when the run's epoch is the current one, whatever the
\* views' outcomes and whatever error text was shown, and writes neither when
\* the run is superseded; so the flag is set exactly while the latest run has
\* not finished, and the text is 'Completed.' exactly when it has.
CompletionGuarded ==
    /\ [](Len(runs) > 0 =>
             /\ isRunning <=> runs[Len(runs)].pc # "finished"
             /\ statusMessage = MsgCompleted <=> runs[Len(runs)].pc = "finished")
    /\ [][\A slot \in DOMAIN runs :
             (runs[slot].pc # "finished" /\ runs'[slot].pc = "finished") =>
                 IF runs[slot].runId = runIdRef
                 THEN statusMessage' = MsgCompleted /\ ~isRunning'
                 ELSE UNCHANGED <<statusMessage, isRunning>>]_vars

\* C21 happens: the first run finished after it was superseded, and the second
\* has completed with every view in error.
CompletedInError ==
    /\ Len(runs) = 2
    /\ runs[1].pc = "finished" /\ runs[1].late
    /\ runs[2].pc = "finished"
    /\ \A k \in DOMAIN results : results[k].status = "error"
    /\ statusMessage = MsgCompleted
    /\ ~isRunning

\* C22  While the run is active after a step, the step that puts a view in
\* error makes that view's message the status text, the step that gives a view
\* its image leaves the status text as it was, and the status text changes in no
\* other way than by an error or by the completion of the run.
LastErrorShown ==
    [][/\ \A index \in DOMAIN results :
             /\ (results[index].status # "error" /\ results'[index].status = "error"
                 /\ isRunning') =>
                    statusMessage' = results'[index].error
             /\ (results[index].status # "done" /\ results'[index].status = "done"
                 /\ isRunning') =>
                    statusMessage' = statusMessage
       /\ statusMessage' # statusMessage =>
              \/ statusMessage' = MsgCompleted /\ ~isRunning'
              \/ \E index \in DOMAIN results :
                     /\ results[index].status # "error"
                     /\ results'[index].status = "error"
                     /\ statusMessage' = results'[index].error]_vars

\* C22 happens: two views have failed with different messages, the queued view
\* that one of them made room for has its image, and the run, still active,
\* shows the message of one of the two.
SecondErrorShown ==
    /\ isRunning
    /\ results[0].error = MsgRequestFailed
    /\ results[1].error = MsgMissingJobId
    /\ results[2].status = "running"
    /\ results[MAX_PARALLEL].status = "done"
    /\ statusMessage = MsgMissingJobId

\* The response holds a list with an entry that normalizeImage accepts.
Extractable(res) == \E n \in 1..Len(res.images) : res.images[n] # RawEmpty

\* C23  The answer to a submission decides the task's next position in this
\* order: not ok gives the view the upstream message or 'Request failed.' as its
\* error; else an extractable image makes the view done, with or without a job
\* id; else a job id starts the poll and leaves the record as it was; else the
\* view's error is 'Missing job id.'.
SubmissionOutcome ==
    [][\A slot \in DOMAIN runs, index \in Indices, res \in SubmitResponses :
          SubmitResponse(slot, index, res) =>
              LET task == runs'[slot].task[index]
                  view == results'[index]
              IN IF ~res.ok
                 THEN /\ task.pc = "resolved"
                      /\ view.status = "error"
                      /\ view.error = IF res.error # NoValue THEN res.error
                                      ELSE MsgRequestFailed
                 ELSE IF Extractable(res)
                 THEN /\ task.pc = "resolved"
                      /\ view.status = "done"
                      /\ view.image # NoValue
                      /\ view.error = NoValue
                 ELSE IF res.id # NoValue
                 THEN /\ task.pc = "polling"
                      /\ view = results[index]
                      /\ view.status = "running"
                 ELSE /\ task.pc = "resolved"
                      /\ view.status = "error"
                      /\ view.error = MsgMissingJobId]_vars

\* C23 happens: of the two submissions one was refused with an upstream message
\* and the other was answered without image and without job id.
BothRefusals ==
    /\ runs[1].pc = "finished"
    /\ results[0].error = "upstream: bad input"
    /\ results[1].error = MsgMissingJobId

\* C24 as stated: a status response with the failure marker puts the view in
\* error, else one with an extractable image makes it done, and every other
\* response is followed by the delay.
StatusOutcomeByContent ==
    [][\A slot \in DOMAIN runs, index \in Indices, res \in StatusResponses :
          StatusResponse(slot, index, res) =>
              LET task == runs'[slot].task[index]
                  view == results'[index]
              IN IF IncludesFail(res.status)
                 THEN task.pc = "resolved" /\ view.status = "error"
                 ELSE IF Extractable(res)
                 THEN task.pc = "resolved" /\ view.status = "done"
                 ELSE task.pc = "waiting" /\ view = results[index]]_vars

\* C24  A status response that is not ok puts the view in error with the
\* upstream message or 'Status request failed.', whatever else it holds; else
\* one with the failure marker puts it in error with the upstream message or
\* 'Render failed.', with or without images; else one with an extractable image
\* makes the view done; every other response is followed by the delay.
StatusOutcome ==
    [][\A slot \in DOMAIN runs, index \in Indices, res \in StatusResponses :
          StatusResponse(slot, index, res) =>
              LET task == runs'[slot].task[index]
                  view == results'[index]
              IN IF ~res.ok
                 THEN /\ task.pc = "resolved"
                      /\ view.status = "error"
                      /\ view.error = IF res.error # NoValue THEN res.error
                                      ELSE MsgStatusFailed
                 ELSE IF IncludesFail(res.status)
                 THEN /\ task.pc = "resolved"
                      /\ view.status = "error"
                      /\ view.error = IF res.error # NoValue THEN res.error
                                      ELSE MsgRenderFailed
                 ELSE IF Extractable(res)
                 THEN /\ task.pc = "resolved"
                      /\ view.status = "done"
                      /\ view.image # NoValue
                 ELSE /\ task.pc = "waiting"
                      /\ task.i = runs[slot].task[index].i
                      /\ view = results[index]]_vars

\* C24 happens: one poll has ended on a response that was not ok and the other
\* on a failure status that came without an upstream message.
PollsRefused ==
    /\ runs[1].pc = "finished"
    /\ \A k \in DOMAIN results : runs[1].task[k].from = "polling"
    /\ results[0].error = MsgStatusFailed
    /\ results[1].error = MsgRenderFailed

\* The first entry of the response's list that normalizeImage accepts.
FirstUsable(res) ==
    res.images[CHOOSE n \in 1..Len(res.images) :
                   /\ res.images[n] # RawEmpty
                   /\ \A m \in 1..(n - 1) : res.images[m] = RawEmpty]

\* C25  A submission answered with images makes the view done with the first
\* usable image of the list, in its normal form, and the task returns in that
\* step straight from its submission; a task that has returned never moves
\* again, so no status request follows.
InlineImageBound ==
    [][/\ \A slot \in DOMAIN runs, index \in Indices, res \in SubmitResponses :
             (SubmitResponse(slot, index, res) /\ res.ok /\ Extractable(res)) =>
                 /\ results'[index] =
                        [results[index] EXCEPT !.status = "done",
                                               !.image = normalizeImage(FirstUsable(res))]
                 /\ runs'[slot].task[index].pc = "resolved"
                 /\ runs'[slot].task[index].from = "submitting"
       /\ \A slot \in DOMAIN runs : \A index \in DOMAIN runs[slot].task :
             runs[slot].task[index].pc = "resolved" =>
                 runs'[slot].task[index] = runs[slot].task[index]]_vars

\* C25 happens: the first view has the first usable image of its submission's
\* answer, the second one has the image its poll returned.
InlineAndPolled ==
    /\ runs[1].pc = "finished"
    /\ runs[1].task[0].from = "submitting"
    /\ results[0].status = "done"
    /\ results[0].image = DataUrl
    /\ runs[1].task[1].from = "polling"
    /\ results[1].image = RawUrl

\* C26 as stated: a change of a slider while a run is active opens a new epoch,
\* and a view that gets its image belongs to a run whose views have the sliders'
\* present values.
ParameterChangeSupersedes ==
    [][/\ ((elevation' # elevation \/ distance' # distance) /\ isRunning) =>
              runIdRef' # runIdRef
       /\ \A index \in DOMAIN results :
              (results[index].status # "done" /\ results'[index].status = "done") =>
                  /\ results'[index].elevation = elevation
                  /\ results'[index].distance = distance]_vars

\* C26  A change of a slider changes neither the epoch nor any run nor the UI
\* state; a view that gets its image afterwards gets it from the run that is
\* still the current one, and its record and its prompt have the elevation and
\* distance of that run's views, not those of the sliders.
ParametersFixedPerRun ==
    [][/\ (elevation' # elevation \/ distance' # distance) =>
              UNCHANGED <<runIdRef, ui, runs, displayed, sourcePayload, readers>>
       /\ \A index \in DOMAIN results :
              (results[index].status # "done" /\ results'[index].status = "done") =>
                  /\ runs[1].runId = runIdRef'
                  /\ results'[index].elevation = runs[1].views[index].elevation
                  /\ results'[index].distance = runs[1].views[index].distance
                  /\ runs[1].views[index].elevation = DefaultElevation
                  /\ runs[1].views[index].distance = DefaultDistance
                  /\ runs'[1].task[index].prompt =
                         [azimuth |-> ANGLE_PRESETS[index], elevation |-> 30,
                          distance |-> 10]]_vars

\* C26 happens: both sliders were moved while the run was active, and the view
\* that had to wait for a runner has since got an image rendered with the values
\* the run started with.
OldParametersBound ==
    /\ isRunning
    /\ elevation = 60
    /\ distance = 14
    /\ results[0].status = "running"
    /\ results[MAX_PARALLEL].status = "done"
    /\ results[MAX_PARALLEL].elevation = DefaultElevation
    /\ results[MAX_PARALLEL].distance = DefaultDistance

\* C27  The delay that follows attempt i is 1500 + 40 * i ms, 40 ms more than
\* the delay before it; the delay after the last attempt is taken too, and when
\* it ends the poll has waited 465600 ms in all and the view times out.
BackoffLinear ==
    [][\A slot \in DOMAIN runs, index \in Indices :
          LET task == runs[slot].task[index]
              next == runs'[slot].task[index]
          IN /\ (task.pc = "polling" /\ next.pc = "waiting") =>
                    /\ next.i = task.i
                    /\ next.timer = 1500 + 40 * task.i
                    /\ task.i > 0 => next.timer = task.timer + 40
                    /\ next.waited = task.waited + next.timer
             /\ (task.pc = "waiting" /\ next.pc = "polling") =>
                    /\ next.i = task.i + 1
                    /\ next.i < POLL_ATTEMPTS
                    /\ next.timer = task.timer
                    /\ next.waited = task.waited
             /\ (WaitElapsed(slot, index) /\ task.i = POLL_ATTEMPTS - 1) =>
                    /\ task.timer = 6260
                    /\ task.waited = 465600
                    /\ next.pc = "resolved"
                    /\ results'[index].error = MsgTimedOut]_vars

\* C27 happens: a poll is in the delay after its 120th attempt.
LastDelayTaken ==
    \E index \in Indices :
        /\ runs[1].task[index].pc = "waiting"
        /\ runs[1].task[index].i = POLL_ATTEMPTS - 1
        /\ runs[1].task[index].timer = 6260
        /\ runs[1].task[index].waited = 465600

\* C30  No task's promise rejects and no runner's: every task that is not idle
\* or in flight has resolved with no error on its way out, runQueue has not
\* rejected, and no run has entered startBatch's outer catch.
TasksNeverReject ==
    \A slot \in DOMAIN runs :
        /\ runs[slot].pc \in {"created", "awaitQueue", "finished"}
        /\ runs[slot].rejected = NoValue
        /\ \A w \in DOMAIN runs[slot].runner :
               runs[slot].runner[w].pc \in {"new", "awaiting", "returned"}
        /\ \A index \in DOMAIN runs[slot].task :
               /\ runs[slot].task[index].thrown = NoValue
               /\ runs[slot].task[index].pc \in
                      {"idle", "submitting", "polling", "waiting", "resolved"}

\* C30 happens: the run has completed although one view had no job id, one was
\* refused and one timed out.
ThreeErrorsCaught ==
    /\ runs[1].pc = "finished"
    /\ results[0].error = MsgMissingJobId
    /\ results[1].error = MsgRequestFailed
    /\ \E k \in DOMAIN results : results[k].error = MsgTimedOut
    /\ statusMessage = MsgCompleted


\* C28: without a session, a send of a message that is not empty after trim
\* issues a chat request exactly when it is the first one since the session was
\* last absent or present; every later one opens the login dialog, issues no
\* request and leaves the messages as they were.  With a session the counter
\* of free turns is 0.
OneFreeTurn ==
    [][/\ (HandleSend /\ chat.session = NoSession /\ Trim(chat.chatInput) # "")
            => IF chat.sent = 0
               THEN /\ chat'.requests = chat.requests + 1
                    /\ chat'.turn.pc = "awaiting"
                    /\ chat'.guestTurns = 1
               ELSE /\ chat'.showAuthModal
                    /\ chat'.requests = chat.requests
                    /\ chat'.messages = chat.messages
                    /\ chat'.turn = chat.turn
       /\ (chat.session = NoSession /\ chat'.session = NoSession
             /\ chat'.requests # chat.requests) => chat.sent = 0
       /\ (chat'.session # NoSession) => chat'.guestTurns = 0]_vars

\* A guest whose free turn was answered tried to send again.
GuestSentTwice ==
    /\ chat.session = NoSession
    /\ chat.guestTurns = 1
    /\ chat.requests = 1
    /\ chat.showAuthModal
    /\ chat.turn = NoTurn
    /\ Trim(chat.chatInput) # ""
    /\ Len(chat.messages) = 2
    /\ chat.messages[2].content = "hello"

\* C29: when /api/chat answers 401, the placeholder of the turn leaves the
\* messages (and nothing else does), the login dialog is open, chatStatus is
\* 'idle' and nothing is written to chat_messages.
UnauthorizedTurn ==
    [][ChatResponse(ChatUnauthorized)
         => /\ chat'.messages =
                 SelectSeq(chat.messages,
                           LAMBDA message : message.id # chat.turn.placeholderId)
            /\ \A n \in DOMAIN chat'.messages : ~chat'.messages[n].isLoading
            /\ chat'.showAuthModal
            /\ chat'.chatStatus = "idle"
            /\ chat'.store = chat.store]_vars

\* A signed-in user's turn was answered 401: the user message is stored and
\* shown, no answer is.
UnauthorizedWithSession ==
    /\ chat.session # NoSession
    /\ chat.showAuthModal
    /\ chat.requests = 1
    /\ chat.chatStatus = "idle"
    /\ chat.turn = NoTurn
    /\ Len(chat.messages) = 1
    /\ chat.messages[1].role = "user"
    /\ Len(chat.store) = 1

\* C31: when an image is bound to view i of the current run, the selected
\* index becomes i if the selected view has no image in the results, and stays
\* where it is if the selected view has one.  applyImageAt reads the results of
\* the render whose startBatch is running, not the current ones, so this is
\* violated: in a first run every bound image takes the selection.
SelectionFollowsCurrentRun ==
    [][\A i \in Indices :
          (runIdRef' = runIdRef /\ ~HasImage(results, i) /\ HasImage(results', i))
            => selectedIndex' =
                   IF selectedIndex # i /\ ~HasImage(results, selectedIndex)
                   THEN i ELSE selectedIndex]_vars

\* C32: in the results a record holds an image exactly when its status is
\* 'done'; a record that is queued, running or in error holds none.
ImageIffDone ==
    \A i \in DOMAIN results :
        /\ results[i].status \in {"queued", "running", "done", "error"}
        /\ HasImage(results, i) <=> results[i].status = "done"

\* One run with a view done, a view in error and a view running, after a
\* status request was answered with a failure.
DoneErrorRunning ==
    /\ \E i \in DOMAIN results : results[i].status = "done" /\ HasImage(results, i)
    /\ \E i \in DOMAIN results :
          /\ results[i].status = "error"
          /\ results[i].error = "upstream: out of memory"
          /\ ~HasImage(results, i)
    /\ \E i \in DOMAIN results : results[i].status = "running" /\ ~HasImage(results, i)

\* C33: isRunning is true in every state in which a view of the results (which
\* are the latest run's) is queued or running, and the only step that makes it
\* false is the one in which the last runner of the latest run returns and the
\* run finishes; superseded runs that finish before or after never clear it.
RunningUntilJoined ==
    /\ []((\E i \in DOMAIN results : results[i].status \in {"queued", "running"})
            => isRunning)
    /\ [][(isRunning /\ ~isRunning') =>
             LET slot == Len(runs)
             IN /\ Len(runs') = slot
                /\ runIdRef' = runIdRef
                /\ runs[slot].runId = runIdRef
                /\ runs[slot].pc = "awaitQueue"
                /\ runs'[slot].pc = "finished"
                /\ \A w \in DOMAIN runs'[slot].runner :
                       runs'[slot].runner[w].pc = "returned"
                /\ \A i \in DOMAIN results' : results'[i].status \in {"done", "error"}]_vars

\* A superseded run has finished while the run that superseded it still has a
\* view running.
SupersededFinishedFirst ==
    /\ Len(runs) = 2
    /\ runs[1].pc = "finished" /\ runs[1].late
    /\ runs[2].pc = "awaitQueue"
    /\ runs[2].runId = runIdRef
    /\ \E i \in DOMAIN results : results[i].status = "running"
    /\ isRunning

\* C34: the onload of a reader whose payload is empty calls startBatch, which
\* returns at once: the epoch, the results, the status text, the selected index
\* and isRunning stay as they are, no run is created and no task of any run
\* moves (so nothing is requested); and with an empty source payload a view of
\* the current run whose submission is answered with images is still done.
EmptyStartIsNoOp ==
    [][/\ \A reader \in readers :
             (reader.payload = NoValue /\ readers' = readers \ {reader})
               => UNCHANGED <<runIdRef, results, selectedIndex, statusMessage,
                              isRunning, runs, displayed>>
       /\ \A slot \in DOMAIN runs, index \in Indices :
             (/\ sourcePayload = NoValue
              /\ runs[slot].runId = runIdRef
              /\ SubmitResponse(slot, index, SubmitInline))
               => /\ results'[index].status = "done"
                  /\ HasImage(results', index)]_vars

\* An empty file was read while the first run was rendering: the run is still
\* the current one, nothing is bound yet and a submission is awaited.
EmptyUploadDuringRun ==
    /\ sourcePayload = NoValue
    /\ readers = {}
    /\ Len(runs) = 1
    /\ runs[1].runId = runIdRef
    /\ runs[1].pc = "awaitQueue"
    /\ runs[1].task[0].pc = "submitting"
    /\ WithImage(results) = {}
    /\ isRunning

\* C35: a history load that completes while a chat request is in flight leaves
\* the user message and the placeholder of the turn in the messages, and the
\* reply of a request that is answered is the content of a displayed message.
\* loadHistory replaces the whole list by the rows it read, so this is violated.
RepliesDisplayed ==
    [][/\ (/\ chat.turn.pc = "awaiting"
           /\ chat.load # NoSession
           /\ chat'.load = NoSession
           /\ chat'.session = chat.session)
            => \A id \in {chat.turn.placeholderId - 1, chat.turn.placeholderId} :
                   /\ (\E n \in DOMAIN chat.messages : chat.messages[n].id = id)
                   /\ (\E n \in DOMAIN chat'.messages : chat'.messages[n].id = id)
       /\ \A res \in ChatReplies :
             (ChatResponse(res) /\ res.thrown = NoValue /\ res.status = 200)
               => \E n \in DOMAIN chat'.messages :
                     /\ chat'.messages[n].id = chat.turn.placeholderId
                     /\ chat'.messages[n].content \in {res.text, MsgNoReply}]_vars

\* C36: chatStatus is 'loading' exactly while a chat request is awaited; a
\* handleSend called while it is 'loading' changes nothing; a request is only
\* issued when none is awaited; every way the request ends (an answer with 200,
\* 401 or another status, or a thrown error) leaves chatStatus 'idle'; and
\* 'loading' always leads to 'idle'.
OneRequestAtATime ==
    /\ [](chat.chatStatus = "loading" <=> chat.turn.pc = "awaiting")
    /\ [](chat.chatStatus = "loading" => handleSend(chat) = chat)
    /\ [][chat'.requests # chat.requests
            => /\ chat.chatStatus = "idle" /\ chat.turn = NoTurn
               /\ chat'.requests = chat.requests + 1
               /\ chat'.chatStatus = "loading"]_vars
    /\ [][\A res \in ChatReplies :
             ChatResponse(res) => chat'.chatStatus = "idle" /\ chat'.turn = NoTurn]_vars
    /\ (chat.chatStatus = "loading") ~> (chat.chatStatus = "idle")

\* Two turns, one after the other: one ended with a thrown error, one with a
\* reply, and chatStatus is 'idle' again.
TwoTurnsAnswered ==
    /\ chat.requests = 2
    /\ chat.chatStatus = "idle"
    /\ chat.turn = NoTurn
    /\ \E n \in DOMAIN chat.messages : chat.messages[n].error = "network down"
    /\ \E n \in DOMAIN chat.messages :
          chat.messages[n].content = "hello" /\ ~chat.messages[n].isLoading

\* The deployment has an API key and an endpoint URL that is more than a slash.
ProxyConfigured ==
    /\ proxy.env.RUNPOD_API_KEY # NoValue
    /\ resolveEndpoint(proxy.env) \notin {NoValue, ""}

\* The body is not a JSON object, names no image (image_base64, image and
\* image_url all absent, or the first one present is empty), or gives inline
\* an image that is a data URL of nothing.
NoUsableImage(body) ==
    \/ body.kind # "object"
    \/ LET given == Coalesce(Coalesce(body.image_base64, body.image), body.image_url)
       IN \/ given \in {NoValue, ""}
          \/ body.image_url \in {NoValue, ""} /\ given = EmptyDataUrl

\* The answer is one made by the handler itself: a JSON body with an error.
OwnError(status) ==
    /\ proxy.pc = "responded"
    /\ proxy.response.status = status
    /\ proxy.response.json
    /\ proxy.response.error # NoValue
    /\ proxy.calls = 0

====
